---------------------------- MODULE Spec2Model ----------------------------
(***************************************************************************)
(* A model of the WechatRobot gateway: the byte-bounded chunking of a      *)
(* reply (BaseSourceAdapter.split_content), the webhook verification of    *)
(* the WeChat adapter (WechatAdapter.verify), the dispatch of an inbound   *)
(* HTTP request to a platform adapter and a provider handler               *)
(* (router.handle_request, SourceProcessor, the provider services) and     *)
(* the execution of the deferred jobs by the Celery workers                *)
(* (_process_request_task, send_message), with MessageFormatter's own      *)
(* split_message, the construction of a provider handler under every       *)
(* setting of the model variables, and the Tencent task's accumulation of  *)
(* a backend stream.                                                       *)
(*                                                                         *)
(* Python strings are modelled as sequences of Unicode codepoints where    *)
(* their bytes or their order matter (chunking, signatures) and as TLA+    *)
(* strings where they are only compared (names, labels, user ids).         *)
(* Python's None is the string "None" where a string may be absent.        *)
(***************************************************************************)
EXTENDS Integers, Sequences, FiniteSets, TLC

VARIABLES
    \* ---- split_content applied to one input
    content,        \* the text to split, a sequence of codepoints
    max_length,     \* the byte limit
    chunks,         \* the list split_content returned
    sc_pc,          \* "call" before the call, "done" after it
    \* ---- WechatAdapter.verify applied to one GET
    environ,        \* os.environ, as far as WECHAT_TOKEN goes
    vquery,         \* request.args of the GET
    vresponse,      \* what verify returned for it (status 0: nothing yet)
    v_pc,           \* "call" before the call, "done" after it
    \* ---- the web-serving path and the broker
    nreq,           \* number of HTTP requests handled so far
    request,        \* the last HTTP request
    response,       \* the HTTP response to it (status 0: nothing yet)
    params,         \* what processor.extract_params returned for it
    handler,        \* the provider handler built for it
    result,         \* what provider_handler.process returned for it
    calls,          \* the operations the request invoked, in order
    queue,          \* the Celery broker's queue of deferred jobs
    \* ---- the Celery workers
    workers,        \* each worker's position in the task it is executing
    runs,           \* the executions of _process_request_task, in order of
                    \* their start: backend calls, send_message calls, pushes
    \* ---- _process_request_task applied to one job
    t_job,          \* the task and its arguments
    t_env,          \* what the task meets: the backend's outcome, whether an
                    \* adapter can be built, what send_message returns, and
                    \* the WeCom credentials the environment sets
    t_result,       \* what the execution did
    t_pc,           \* "call" before the execution, "done" after it
    \* ---- MessageFormatter.split_message applied to the input of split_content
    parts,          \* the list split_message returned
    sm_pc,          \* "call" before the call, "done" after it
    \* ---- a provider handler built and asked to process one text message
    p_in,           \* the provider, the model path segment, the settings
    p_out,          \* whether the constructor raised, and the jobs enqueued
    p_pc,           \* "call" before the construction, "done" after process
    \* ---- the Tencent task's accumulation of one stream
    stream,         \* the chunks the backend streams, in order
    acc,            \* the task's locals: reasoning_content, answer_content,
                    \* is_answering, token_usage, and the chunks consumed
    full_content,   \* the text the task builds, as a list of pieces
    st_pc           \* "call" before the stream is opened, "loop" while it is
                    \* read, "done" once full_content is built

chunkVars == <<content, max_length, chunks, sc_pc>>
verifyVars == <<environ, vquery, vresponse, v_pc>>
webVars == <<nreq, request, response, params, handler, result, calls, queue>>
workerVars == <<workers, runs>>
taskVars == <<t_job, t_env, t_result, t_pc>>
formatterVars == <<parts, sm_pc>>
providerVars == <<p_in, p_out, p_pc>>
streamVars == <<stream, acc, full_content, st_pc>>
vars == <<content, max_length, chunks, sc_pc, environ, vquery, vresponse, v_pc,
          nreq, request, response, params, handler, result, calls, queue,
          workers, runs, t_job, t_env, t_result, t_pc, parts, sm_pc,
          p_in, p_out, p_pc, stream, acc, full_content, st_pc>>

None == "None"

(***************************************************************************)
(* Bounds of the model.                                                    *)
(***************************************************************************)
MaxContentLen == 4      \* longest text given to split_content, in codepoints
MaxLimit == 5           \* largest byte limit given to split_content
MaxStrLen == 3          \* longest timestamp / nonce of a verification GET
MaxRequests == 2        \* HTTP requests handled in one behaviour
MaxStreamLen == 3       \* chunks of one backend stream

(***************************************************************************)
(* Sequences.                                                              *)
(***************************************************************************)
SeqsUpTo(S, n) == UNION {[1..k -> S] : k \in 0..n}

RECURSIVE Flatten(_)
Flatten(ss) == IF ss = <<>> THEN <<>> ELSE Head(ss) \o Flatten(Tail(ss))

(***************************************************************************)
(* UTF-8.  A codepoint is its Unicode scalar value; len(char.encode(       *)
(* 'utf-8')) is 1, 2, 3 or 4 by the value's range.  The model's texts are  *)
(* over one codepoint of each size: 'a', 'e-acute', a CJK ideograph and an *)
(* emoji.                                                                  *)
(***************************************************************************)
Codepoints == {97, 233, 20013, 128512}

Utf8Len(char) ==
    IF char < 128 THEN 1
    ELSE IF char < 2048 THEN 2
    ELSE IF char < 65536 THEN 3
    ELSE 4

RECURSIVE Utf8Size(_)
Utf8Size(s) == IF s = <<>> THEN 0 ELSE Utf8Len(Head(s)) + Utf8Size(Tail(s))

(***************************************************************************)
(* BaseSourceAdapter.split_content.                                        *)
(***************************************************************************)
\* A slip of the test: the size of the incoming character is forgotten.
OverflowsIgnoringChar(current_size, char_size, limit) ==
    current_size > limit

\* A slip of the test: a chunk is closed as soon as it would be full.
OverflowsWhenFull(current_size, char_size, limit) ==
    current_size + char_size >= limit

\* base_adapter.py line 65: the incoming character would push the chunk over.
Overflows(current_size, char_size, limit) ==
    current_size + char_size > limit

\* A slip of the loop body: the character that closes a chunk is dropped.
SplitStepDroppingChar(st, char, limit) ==
    LET char_size == Utf8Len(char)
    IN  IF Overflows(st.current_size, char_size, limit)
        THEN [chunks |-> Append(st.chunks, st.current_chunk),
              current_chunk |-> <<>>, current_size |-> 0]
        ELSE [chunks |-> st.chunks,
              current_chunk |-> Append(st.current_chunk, char),
              current_size |-> st.current_size + char_size]

\* One iteration of the loop, lines 63-70.
SplitStep(st, char, limit) ==
    LET char_size == Utf8Len(char)
        closed == IF Overflows(st.current_size, char_size, limit)
                  THEN [chunks |-> Append(st.chunks, st.current_chunk),
                        current_chunk |-> <<>>, current_size |-> 0]
                  ELSE st
    IN  [chunks |-> closed.chunks,
         current_chunk |-> Append(closed.current_chunk, char),
         current_size |-> closed.current_size + char_size]

\* The loop over the characters of rest, in order, from the state st.  The
\* iterations over a text are those over its first half followed by those
\* over its second half; st is looked at first (its size is never
\* negative), so that each half is computed before the next one starts and
\* the evaluation stays shallow for the long messages send_message splits.
RECURSIVE SplitLoop(_, _, _)
SplitLoop(st, rest, limit) ==
    IF rest = <<>> \/ st.current_size < 0 THEN st
    ELSE IF Len(rest) = 1 THEN SplitStep(st, rest[1], limit)
    ELSE SplitLoop(SplitLoop(st, SubSeq(rest, 1, Len(rest) \div 2), limit),
                   SubSeq(rest, Len(rest) \div 2 + 1, Len(rest)), limit)

\* Lines 72-73: the last partial chunk is emitted when it is not empty.
SplitFlush(st) ==
    IF st.current_chunk # <<>> THEN Append(st.chunks, st.current_chunk)
    ELSE st.chunks

split_content(text, limit) ==
    SplitFlush(SplitLoop([chunks |-> <<>>, current_chunk |-> <<>>,
                          current_size |-> 0], text, limit))

(***************************************************************************)
(* MessageFormatter.split_message: the same loop, behind a test of the     *)
(* message's length in characters (message_formatter.py lines 52-53); a    *)
(* message of at most max_length characters is returned whole.             *)
(***************************************************************************)
split_message(message, limit) ==
    IF Len(message) <= limit THEN <<message>>
    ELSE SplitFlush(SplitLoop([chunks |-> <<>>, current_chunk |-> <<>>,
                               current_size |-> 0], message, limit))

(***************************************************************************)
(* Strings of the verification: sequences over the characters 'a' and 'b', *)
(* ordered as Python orders str (by codepoint, a prefix first).            *)
(***************************************************************************)
Chars == {97, 98}
Strs == SeqsUpTo(Chars, MaxStrLen)

RECURSIVE StrLess(_, _)
StrLess(a, b) ==
    IF b = <<>> THEN FALSE
    ELSE IF a = <<>> THEN TRUE
    ELSE IF Head(a) # Head(b) THEN Head(a) < Head(b)
    ELSE StrLess(Tail(a), Tail(b))

\* list.sort(): x is put before the first element greater than it.
RECURSIVE SortInsert(_, _)
SortInsert(x, sorted) ==
    IF sorted = <<>> THEN <<x>>
    ELSE IF StrLess(x, Head(sorted)) THEN <<x>> \o sorted
    ELSE <<Head(sorted)>> \o SortInsert(x, Tail(sorted))

RECURSIVE SortStrings(_)
SortStrings(list) ==
    IF list = <<>> THEN <<>>
    ELSE SortInsert(Head(list), SortStrings(Tail(list)))

\* hashlib.sha1(...).hexdigest(): a digest without collisions, which is
\* never the empty string.  The digest of s is written <<0>> \o s.
Sha1Hex(s) == <<0>> \o s

(***************************************************************************)
(* Config.WECHAT_TOKEN = os.environ.get('WECHAT_TOKEN'): None when the     *)
(* variable is not in the environment env.                                 *)
(***************************************************************************)
\* A slip of the digest input: the three strings are joined unsorted.
SignedStringUnsorted(tok, timestamp, nonce) ==
    Flatten(<<tok, timestamp, nonce>>)

\* wechat_adapter.py lines 33-38: temp_list.sort(); ''.join(temp_list).
SignedString(tok, timestamp, nonce) ==
    Flatten(SortStrings(<<tok, timestamp, nonce>>))

\* A slip of the comparison: any signature is accepted.
WechatVerifyAcceptingAll(env, args) ==
    IF "WECHAT_TOKEN" \notin DOMAIN env
    THEN [status |-> 500, body |-> "Verification error"]
    ELSE [status |-> 200, body |-> args.echostr]

\* WechatAdapter.verify.  Sorting a list that holds None raises TypeError,
\* which the except clause turns into status 500.  A str returned from a
\* Flask view is sent with status 200.
WechatVerify(env, args) ==
    IF "WECHAT_TOKEN" \notin DOMAIN env
    THEN [status |-> 500, body |-> "Verification error"]
    ELSE IF Sha1Hex(SignedString(env["WECHAT_TOKEN"], args.timestamp,
                                 args.nonce)) = args.signature
         THEN [status |-> 200, body |-> args.echostr]
         ELSE [status |-> 403, body |-> "Verification failed"]

(***************************************************************************)
(* Names.  The path segments of a request are strings; str.lower and       *)
(* str.capitalize are tabulated on the names the model uses.               *)
(***************************************************************************)
Lower(name) == IF name = "WeCom" THEN "wecom" ELSE name

Capitalize(name) ==
    CASE name = "wechat" -> "Wechat"
      [] name = "wecom" -> "Wecom"
      [] name = "telegram" -> "Telegram"
      [] name = "groq" -> "Groq"
      [] name = "tencent" -> "Tencent"
      [] name = "deepseek" -> "Deepseek"
      [] name = "geekai" -> "Geekai"
      [] name = "tongyiqianwen" -> "Tongyiqianwen"
      [] name = "openai" -> "Openai"
      [] name = "base" -> "Base"

\* The modules app.adapters.source_adapters.<name>_adapter and the adapter
\* class each defines; a class name is written <<stem, suffix>>.
AdapterModules ==
    [wechat |-> {<<"Wechat", "Adapter">>},
     wecom  |-> {<<"Wecom", "Adapter">>},
     base   |-> {<<"BaseSource", "Adapter">>}]

\* The modules app.services.provider_services.<name>_service and the
\* provider class each defines.
ProviderModules ==
    [groq          |-> {<<"Groq", "Provider">>},
     tencent       |-> {<<"Tencent", "Provider">>},
     deepseek      |-> {<<"Deepseek", "Provider">>},
     geekai        |-> {<<"Geekai", "Provider">>},
     tongyiqianwen |-> {<<"Tongyiqianwen", "Provider">>},
     base          |-> {<<"Base", "ProviderService">>}]

\* The model attributes class Config defines, with the names the
\* deployment gives them.
ConfigModels ==
    [GROQ_DS_R1_70B_MODEL           |-> "deepseek-r1-distill-llama-70b",
     TENCENT_MODEL_DEEPSEEK_R1_671B |-> "deepseek-r1-671b",
     DEEPSEEK_DS_V3                 |-> "deepseek-chat",
     GEEK_MODEL_QWQ_PLUS            |-> "qwq-plus",
     GEEK_MODEL_GEMMA_27B           |-> "gemma-3-27b-it:free"]

\* The Config attribute each provider's __init__ reads for its default.
DefaultModelAttr ==
    [Groq          |-> "GROQ_DS_R1_70B_MODEL",
     Tencent       |-> "TENCENT_MODEL_DEEPSEEK_R1_671B",
     Deepseek      |-> "DEEPSEEK_CHAT",
     Geekai        |-> "GEEK_MODEL_GEMMA_27B",
     Tongyiqianwen |-> "GEEK_MODEL_QWQ_PLUS"]

\* The 'provider' label of a result, and the Celery task of each provider.
ProviderLabel ==
    [Groq |-> "Groq", Tencent |-> "Tencent", Deepseek |-> "DeepSeek",
     Geekai |-> "JiKeZhiFang", Tongyiqianwen |-> "TongYiQianWen"]

TaskName ==
    [Groq          |-> "groq_service.process_request",
     Tencent       |-> "tencent_service.process_request",
     Deepseek      |-> "deepseek_service.process_request",
     Geekai        |-> "Geekai_service.process   _request",
     Tongyiqianwen |-> "Tongyiqianwen_service.process_request"]

TEXT_ONLY_NOTICE == "Sorry, I can only process text messages."
BEING_PROCESSED == "Your request is being processed..."
\* The adapters' placeholder (in the source a Chinese sentence: "thinking,
\* please wait...").
PROCESSING_PLACEHOLDER == "thinking, please wait..."
NO_RESPONSE == "No response from AI provider"
FIXED_MEDIA_ID == "kaMSmt1j23Az0YO9YonIwAxlsBmITjQUf_7ggkVu4E3rpxhJqXjBhefOBho46nIJ"

NoDict == [k \in {} |-> ""]
\* dict.get(tag): the value, or None.
Field(fields, tag) == IF tag \in DOMAIN fields THEN fields[tag] ELSE None
NoHandler == [cls |-> None, model |-> None]

(***************************************************************************)
(* SourceProcessor: the adapter and the provider handler of a request.     *)
(***************************************************************************)
\* SourceProcessor.__init__ and _load_adapter: ImportError and
\* AttributeError become ValueError.
\* A slip of the constructor: the adapter is found by the lower-cased name
\* but self.source keeps the path segment as written.
LoadAdapterKeepingCase(source) ==
    LET src == Lower(source)
        cls == <<Capitalize(src), "Adapter">>
    IN  IF src \notin DOMAIN AdapterModules \/ cls \notin AdapterModules[src]
        THEN [raised |-> TRUE, exc |-> "ValueError", source |-> source, cls |-> None]
        ELSE [raised |-> FALSE, exc |-> None, source |-> source, cls |-> cls[1]]

LoadAdapter(source) ==
    LET src == Lower(source)
        cls == <<Capitalize(src), "Adapter">>
    IN  IF src \notin DOMAIN AdapterModules
        THEN [raised |-> TRUE, exc |-> "ValueError", source |-> src, cls |-> None]
        ELSE IF cls \notin AdapterModules[src]
        THEN [raised |-> TRUE, exc |-> "ValueError", source |-> src, cls |-> None]
        ELSE [raised |-> FALSE, exc |-> None, source |-> src, cls |-> cls[1]]

\* A slip of the constructor: the Config default replaces the model of the
\* path.
ProviderInitIgnoringModel(stem, model, settings) ==
    IF DefaultModelAttr[stem] \notin DOMAIN settings
    THEN [raised |-> TRUE, handler |-> NoHandler]
    ELSE [raised |-> FALSE,
          handler |-> [cls |-> stem, model |-> settings[DefaultModelAttr[stem]]]]

\* <Provider>.__init__ under the values settings gives to the attributes of
\* class Config (None for a variable the environment does not set): the
\* model of the path, or the Config default; a Config attribute that does
\* not exist raises AttributeError.
ProviderInitWith(stem, model, settings) ==
    IF model # None
    THEN [raised |-> FALSE, handler |-> [cls |-> stem, model |-> model]]
    ELSE IF DefaultModelAttr[stem] \notin DOMAIN settings
    THEN [raised |-> TRUE, handler |-> NoHandler]
    ELSE [raised |-> FALSE,
          handler |-> [cls |-> stem, model |-> settings[DefaultModelAttr[stem]]]]

\* <Provider>.__init__ in a deployment that sets every model variable.
ProviderInit(stem, model) == ProviderInitWith(stem, model, ConfigModels)

\* SourceProcessor._create_provider_handler: ImportError and AttributeError,
\* the constructor's included, become ValueError.
CreateProviderHandler(provider, model) ==
    LET provider_lower == Lower(provider)
        cls == <<Capitalize(provider_lower), "Provider">>
        failed == [raised |-> TRUE, exc |-> "ValueError", handler |-> NoHandler]
    IN  IF provider_lower \notin DOMAIN ProviderModules THEN failed
        ELSE IF cls \notin ProviderModules[provider_lower] THEN failed
        ELSE LET made == ProviderInit(cls[1], model)
             IN  IF made.raised THEN failed
                 ELSE [raised |-> FALSE, exc |-> None, handler |-> made.handler]

(***************************************************************************)
(* The provider handlers' process().                                       *)
(***************************************************************************)
\* A slip of the job's arguments: the recipient is taken for the sender.
DeferredJobToRecipient(h, p) ==
    [task |-> TaskName[h.cls], user_id |-> p.to_user, query |-> p.content,
     model |-> h.model, source |-> p.source]

\* The keyword arguments of _process_request_task.delay(...).
DeferredJob(h, p) ==
    [task |-> TaskName[h.cls], user_id |-> p.from_user, query |-> p.content,
     model |-> h.model, source |-> p.source]

\* A slip of the notice: it is returned as an asynchronous result.
TextOnlyResultAsync(h) ==
    [content |-> TEXT_ONLY_NOTICE, provider |-> <<ProviderLabel[h.cls]>>,
     model |-> h.model, async |-> TRUE]

\* The result for a message without 'content'.
TextOnlyResult(h) ==
    [content |-> TEXT_ONLY_NOTICE, provider |-> <<ProviderLabel[h.cls]>>,
     model |-> h.model, async |-> FALSE]

\* A slip of the result: it carries an answer.
AcceptedResultWithAnswer(h) ==
    [content |-> "the answer", provider |-> <<ProviderLabel[h.cls], h.model>>,
     model |-> h.model, async |-> TRUE]

\* The result returned once the job is enqueued; the label is
\* f'<label>/{self.model}'.  Only DeepseekProvider gives it a 'content'.
AcceptedResult(h) ==
    LET r == [provider |-> <<ProviderLabel[h.cls], h.model>>,
              model |-> h.model, async |-> TRUE]
    IN  IF h.cls = "Deepseek" THEN ("content" :> BEING_PROCESSED) @@ r ELSE r

\* A slip of the test: a job is enqueued unless the params hold an error.
ProviderProcessTestingErrorKey(h, p) ==
    IF "error" \in DOMAIN p
    THEN [result |-> TextOnlyResult(h), jobs |-> <<>>, calls |-> <<>>]
    ELSE [result |-> AcceptedResult(h),
          jobs |-> <<[task |-> TaskName[h.cls], user_id |-> p.from_user,
                      query |-> Field(p, "content"), model |-> h.model,
                      source |-> p.source]>>,
          calls |-> <<"delay">>]

\* A slip of the design: the backend is called and the reply delivered
\* before process returns.
ProviderProcessInline(h, p) ==
    IF "content" \notin DOMAIN p
    THEN [result |-> TextOnlyResult(h), jobs |-> <<>>, calls |-> <<>>]
    ELSE [result |-> AcceptedResult(h), jobs |-> <<>>,
          calls |-> <<"call_backend", "send_message">>]

\* <Provider>.process: the result, the jobs handed to the broker and the
\* calls made on the way.  Nothing else is called: the backend's client is
\* created and used in _process_request_task only.
ProviderProcess(h, p) ==
    IF "content" \notin DOMAIN p
    THEN [result |-> TextOnlyResult(h), jobs |-> <<>>, calls |-> <<>>]
    ELSE [result |-> AcceptedResult(h), jobs |-> <<DeferredJob(h, p)>>,
          calls |-> <<"delay">>]

(***************************************************************************)
(* The platform adapters.  A request body is the document it carries:      *)
(* wellformed (for WeCom: it decrypts and parses) and its fields by tag.   *)
(***************************************************************************)
\* WechatAdapter.extract_params: ET.fromstring raises ParseError, and
\* root.find(tag).text raises AttributeError when the tag is missing;
\* neither is caught.
WechatExtractParams(body) ==
    LET f == body.fields
        raise(exc) == [raised |-> TRUE, exc |-> exc, params |-> NoDict]
        base == [msg_type |-> f.MsgType, from_user |-> f.FromUserName,
                 to_user |-> f.ToUserName, create_time |-> f.CreateTime]
        needs(tags) == tags \subseteq DOMAIN f
    IN  IF ~body.wellformed THEN raise("ParseError")
        ELSE IF ~needs({"MsgType", "FromUserName", "ToUserName", "CreateTime"})
        THEN raise("AttributeError")
        ELSE IF f.MsgType = "text"
        THEN IF needs({"Content"})
             THEN [raised |-> FALSE, exc |-> None,
                   params |-> ("content" :> f.Content) @@ base]
             ELSE raise("AttributeError")
        ELSE IF f.MsgType = "image"
        THEN IF needs({"PicUrl", "MediaId"})
             THEN [raised |-> FALSE, exc |-> None,
                   params |-> ("pic_url" :> f.PicUrl)
                              @@ ("media_id" :> f.MediaId) @@ base]
             ELSE raise("AttributeError")
        ELSE IF f.MsgType = "event"
        THEN IF needs({"Event"})
             THEN [raised |-> FALSE, exc |-> None,
                   params |-> ("event" :> f.Event) @@ base]
             ELSE raise("AttributeError")
        ELSE [raised |-> FALSE, exc |-> None, params |-> base]

\* WecomAdapter.extract_params: any exception is caught and returned as
\* {'error': str(e)}.
WecomExtractParams(body) ==
    LET f == body.fields
        base == [msg_type |-> Field(f, "MsgType"),
                 from_user |-> Field(f, "FromUserName"),
                 to_user |-> Field(f, "ToUserName"),
                 create_time |-> Field(f, "CreateTime")]
        ok(p) == [raised |-> FALSE, exc |-> None, params |-> p]
    IN  IF ~body.wellformed THEN ok([error |-> "InvalidSignatureException"])
        ELSE IF "MsgType" \notin DOMAIN f THEN ok([error |-> "'MsgType'"])
        ELSE IF base.msg_type = "text"
        THEN ok(("content" :> Field(f, "Content")) @@ base)
        ELSE IF base.msg_type = "image"
        THEN ok(("media_id" :> Field(f, "MediaId")) @@ base)
        ELSE IF base.msg_type = "event"
        THEN ok(("event" :> Field(f, "Event")) @@ ("event_key" :> "") @@ base)
        ELSE ok(base)

\* SourceProcessor.extract_params: the adapter's, then params['source'].
ExtractParams(adapter, body) ==
    LET e == IF adapter.cls = "Wechat" THEN WechatExtractParams(body)
             ELSE WecomExtractParams(body)
    IN  IF e.raised THEN e
        ELSE [e EXCEPT !.params = ("source" :> adapter.source) @@ e.params]

HttpResponse(status, body) == [status |-> status, unhandled |-> None, body |-> body]
PlainBody(text) == [kind |-> "plain", text |-> text, xml |-> NoDict]

\* An exception that leaves handle_request: Flask logs it and answers 500.
Unhandled(exc) ==
    [status |-> 500, unhandled |-> exc, body |-> PlainBody("Internal Server Error")]

\* WechatAdapter._build_text_response: an image envelope with a fixed media
\* id; the content argument is not used (the text envelope is commented out).
\* A slip of the envelope: the two names are not exchanged.
WechatBuildTextResponseUnswapped(from_user, to_user, text) ==
    [ToUserName |-> from_user, FromUserName |-> to_user, CreateTime |-> "now",
     MsgType |-> "image", MediaId |-> FIXED_MEDIA_ID]

WechatBuildTextResponse(from_user, to_user, text) ==
    [ToUserName |-> to_user, FromUserName |-> from_user, CreateTime |-> "now",
     MsgType |-> "image", MediaId |-> FIXED_MEDIA_ID]

\* WechatAdapter.format_response.
WechatFormatResponse(res, p) ==
    LET text == IF "async" \in DOMAIN res /\ res.async THEN PROCESSING_PLACEHOLDER
                ELSE IF "content" \in DOMAIN res THEN res.content
                ELSE NO_RESPONSE
    IN  HttpResponse(200, [kind |-> "xml", text |-> "",
                           xml |-> WechatBuildTextResponse(p.to_user, p.from_user, text)])

\* WecomAdapter.format_response: always the placeholder, encrypted; a
\* params without 'from_user' raises KeyError, caught and answered 500.
WecomFormatResponse(res, p) ==
    IF ~({"from_user", "to_user"} \subseteq DOMAIN p)
    THEN HttpResponse(500, PlainBody("Error processing request"))
    ELSE HttpResponse(200, [kind |-> "encrypted", text |-> "",
                            xml |-> [ToUserName |-> p.from_user,
                                     FromUserName |-> p.to_user,
                                     CreateTime |-> "now", MsgType |-> "text",
                                     Content |-> PROCESSING_PLACEHOLDER]])

FormatResponse(adapter, res, p) ==
    IF adapter.cls = "Wechat" THEN WechatFormatResponse(res, p)
    ELSE WecomFormatResponse(res, p)

\* WecomAdapter.verify: crypto.check_signature returns the decrypted echo or
\* raises, which is caught and answered 500.  The library accepts the GET
\* whose msg_signature is the one it computes.
WecomVerify(args) ==
    IF args.msg_signature = "valid"
    THEN HttpResponse(200, PlainBody("decrypted echo"))
    ELSE HttpResponse(500, PlainBody("Verification error"))

Verify(adapter, env, args) ==
    IF adapter.cls = "Wechat"
    THEN LET r == WechatVerify(env, args) IN HttpResponse(r.status, PlainBody(r.body))
    ELSE WecomVerify(args)

(***************************************************************************)
(* router.handle_request: the whole handling of one request.               *)
(***************************************************************************)
\* A slip of the GET branch: the body is extracted before the verification.
GetCallsExtracting == <<"load_adapter", "extract_params", "verify">>

\* The operations a GET invokes: SourceProcessor(source), processor.verify.
GetCalls == <<"load_adapter", "verify">>

HandleRequest(req, env) ==
    LET a == LoadAdapter(req.source)
        none == [response |-> Unhandled("ValueError"), params |-> NoDict,
                 handler |-> NoHandler, result |-> NoDict,
                 calls |-> <<"load_adapter">>, jobs |-> <<>>]
    IN  IF a.raised THEN none
        ELSE IF req.method = "GET"
        THEN [none EXCEPT !.response = Verify(a, env, req.query),
                          !.calls = GetCalls]
        ELSE LET e == ExtractParams(a, req.body)
             IN  IF e.raised
                 THEN [none EXCEPT !.response = Unhandled(e.exc),
                                   !.calls = <<"load_adapter", "extract_params">>]
                 ELSE LET h == CreateProviderHandler(req.provider, req.model)
                      IN  IF h.raised
                          THEN [none EXCEPT
                                  !.params = e.params,
                                  !.calls = <<"load_adapter", "extract_params",
                                              "create_provider_handler">>]
                          ELSE LET r == ProviderProcess(h.handler, e.params)
                               IN  [response |-> FormatResponse(a, r.result, e.params),
                                    params |-> e.params,
                                    handler |-> h.handler,
                                    result |-> r.result,
                                    calls |-> <<"load_adapter", "extract_params",
                                                "create_provider_handler", "process">>
                                              \o r.calls
                                              \o <<"format_response">>,
                                    jobs |-> r.jobs]

(***************************************************************************)
(* The deferred jobs: _process_request_task of each provider service, run  *)
(* by a Celery worker, and the adapters' send_message.                     *)
(***************************************************************************)
\* The codepoints of the fixed strings the tasks build their messages from.
Ord ==
    ("Sorry, there was an error processing your request with " :> <<83, 111,
        114, 114, 121, 44, 32, 116, 104, 101, 114, 101, 32, 119, 97, 115, 32,
        97, 110, 32, 101, 114, 114, 111, 114, 32, 112, 114, 111, 99, 101, 115,
        115, 105, 110, 103, 32, 121, 111, 117, 114, 32, 114, 101, 113, 117, 101,
        115, 116, 32, 119, 105, 116, 104, 32>>) @@
    ("Groq" :> <<71, 114, 111, 113>>) @@
    ("Tencent" :> <<84, 101, 110, 99, 101, 110, 116>>) @@
    ("DeepSeek" :> <<68, 101, 101, 112, 83, 101, 101, 107>>) @@
    ("Geekai" :> <<71, 101, 101, 107, 97, 105>>) @@
    ("Tongyiqianwen" :> <<84, 111, 110, 103, 121, 105, 113, 105, 97, 110,
        119, 101, 110>>) @@
    (": " :> <<58, 32>>) @@
    ("/" :> <<47>>) @@
    ("Connection error." :> <<67, 111, 110, 110, 101, 99, 116, 105, 111,
        110, 32, 101, 114, 114, 111, 114, 46>>) @@
    ("hi" :> <<104, 105>>) @@
    ("m1" :> <<109, 49>>) @@
    ("Token_usage: " :> <<84, 111, 107, 101, 110, 95, 117, 115, 97, 103,
        101, 58, 32>>) @@
    ("0" :> <<48>>) @@
    ("<think>" :> <<60, 116, 104, 105, 110, 107, 62>>) @@
    ("</think>" :> <<60, 47, 116, 104, 105, 110, 107, 62>>) @@
    ("error" :> <<101, 114, 114, 111, 114>>) @@
    ("DEFAULT" :> <<68, 69, 70, 65, 85, 76, 84>>) @@
    ("DS-R1-671B, hyphens of full width" :> <<68, 83, 65293, 82, 49, 65293, 54, 55, 49, 66>>) @@
    ("QWQ-Plus" :> <<81, 87, 81, 45, 80, 108, 117, 115>>) @@
    ("deepseek-r1-distill-llama-70b" :> <<100, 101, 101, 112, 115, 101, 101,
        107, 45, 114, 49, 45, 100, 105, 115, 116, 105, 108, 108, 45, 108,
        108, 97, 109, 97, 45, 55, 48, 98>>) @@
    ("gemma-3-27b-it:free" :> <<103, 101, 109, 109, 97, 45, 51, 45, 50, 55, 98,
        45, 105, 116, 58, 102, 114, 101, 101>>) @@
    ("GROQ_DEEPSEEK_R1_DISTILL_LLAMA_70B" :> <<71, 82, 79, 81, 95, 68, 69, 69,
        80, 83, 69, 69, 75, 95, 82, 49, 95, 68, 73, 83, 84, 73, 76, 76, 95,
        76, 76, 65, 77, 65, 95, 55, 48, 66>>) @@
    ("TONGYIQIANWEN_QWQ_PLUS" :> <<84, 79, 78, 71, 89, 73, 81, 73, 65, 78, 87,
        69, 78, 95, 81, 87, 81, 95, 80, 76, 85, 83>>) @@
    ("DEEPSEEK_DS_V3" :> <<68, 69, 69, 80, 83, 69, 69, 75, 95, 68, 83, 95, 86,
        51>>) @@
    ("TENCENT_DS_R1_671B" :> <<84, 69, 78, 67, 69, 78, 84, 95, 68, 83, 95, 82,
        49, 95, 54, 55, 49, 66>>) @@
    ("GEEKAI_GEMMA_3_27B_IT_FREE" :> <<71, 69, 69, 75, 65, 73, 95, 71, 69, 77,
        77, 65, 95, 51, 95, 50, 55, 66, 95, 73, 84, 95, 70, 82, 69, 69>>) @@
    ("GEEKAI_MISTRAL_SMALL_FREE" :> <<71, 69, 69, 75, 65, 73, 95, 77, 73, 83,
        84, 82, 65, 76, 95, 83, 77, 65, 76, 76, 95, 70, 82, 69, 69>>) @@
    ("None" :> <<78, 111, 110, 101>>)

\* send_message: self.split_content(message, 2000).
SEND_LIMIT == 2000

\* The worker processes; celery_worker.py starts one with the solo pool,
\* which executes one task at a time.
Workers == {"w1", "w2"}

\* The tasks a worker knows: those of the modules init_celery imports
\* (celery_utils.py lines 23-29).  tencent_service and geekai_service are
\* imported by the web process only, when a request names them.
WorkerTasks ==
    {TaskName[c] : c \in {"Groq", "Tongyiqianwen", "Deepseek"}}

TaskProvider(task) == CHOOSE c \in DOMAIN TaskName : TaskName[c] = task

\* The provider's name in the error notice of its task.
NoticeName ==
    [Groq |-> "Groq", Tencent |-> "Tencent", Deepseek |-> "DeepSeek",
     Geekai |-> "Geekai", Tongyiqianwen |-> "Tongyiqianwen"]

\* f"Sorry, there was an error processing your request with <name>: {str(e)}"
ErrorNotice(cls, exc) ==
    Ord["Sorry, there was an error processing your request with "]
        \o Ord[NoticeName[cls]] \o Ord[": "] \o Ord[exc]

\* The message a task sends for the text the backend returned.  The streamed
\* pieces are joined; TencentProvider adds the token usage and the <think>
\* frame (closed at the first answer piece), DeepseekProvider puts its label
\* in the message itself.
FullContent(cls, model, text) ==
    CASE cls = "Deepseek" ->
            Ord["DeepSeek"] \o Ord["/"] \o Ord[model] \o Ord[": "] \o text
      [] cls = "Tencent" ->
            Ord["Token_usage: "] \o Ord["0"] \o <<10>> \o Ord["<think>"]
                \o <<10>> \o (IF text # <<>> THEN Ord["</think>"] ELSE <<>>)
                \o text
      [] OTHER -> text

\* The model argument of send_message: f'<label>/{model}', or the default
\* "Unknown" when the task passes none (DeepseekProvider, every notice).
ReplyLabel(cls, model) ==
    IF cls = "Deepseek" THEN <<"Unknown">> ELSE <<ProviderLabel[cls], model>>

\* What the backend call of a task can do: return a text or raise.
\* The texts are the empty one and one of three chunks, of 3-byte
\* characters; an error notice is a message of one chunk.
Replies ==
    {<<>>, [i \in 1..(2 * (SEND_LIMIT \div 3) + 1) |-> 20013]}
BackendErrors == {"Connection error."}
BackendOutcomes ==
    {[raised |-> FALSE, text |-> t, exc |-> None] : t \in Replies}
    \cup {[raised |-> TRUE, text |-> <<>>, exc |-> e] : e \in BackendErrors}

NoSend == [send |-> FALSE, kind |-> None, message |-> <<>>, label |-> <<>>]

\* A slip of the except clause: the error is logged and nobody is told.
AfterBackendSilentOnError(job, out) ==
    IF job.source \notin {"wechat", "wecom"} \/ out.raised THEN NoSend
    ELSE [send |-> TRUE, kind |-> "reply",
          message |-> FullContent(TaskProvider(job.task), job.model, out.text),
          label |-> ReplyLabel(TaskProvider(job.task), job.model)]

\* _process_request_task after the backend call: the one send_message call
\* of the try block or of the except clause; none for an unknown source.
AfterBackend(job, out) ==
    LET cls == TaskProvider(job.task)
    IN  IF job.source \notin {"wechat", "wecom"} THEN NoSend
        ELSE IF out.raised
        THEN [send |-> TRUE, kind |-> "notice",
              message |-> ErrorNotice(cls, out.exc), label |-> <<"Unknown">>]
        ELSE [send |-> TRUE, kind |-> "reply",
              message |-> FullContent(cls, job.model, out.text),
              label |-> ReplyLabel(cls, job.model)]

\* The messages a task can hand to send_message, and for each the chunks
\* self.split_content(message, 2000) makes of it, computed once.
TaskModels == {"m1"}
TaskMessages ==
    {FullContent(c, m, t) : c \in DOMAIN TaskName, m \in TaskModels, t \in Replies}
    \cup {ErrorNotice(c, e) : c \in DOMAIN TaskName, e \in BackendErrors}
ChunksOfMessage == [m \in TaskMessages |-> split_content(m, SEND_LIMIT)]

\* A slip of the enumeration: the chunks are numbered from 0.
TextPushesFromZero(message, label) ==
    LET cs == ChunksOfMessage[message]
    IN  [i \in 1..Len(cs) |->
            [kind |-> "text", label |-> label, index |-> i - 1, chunk |-> cs[i]]]

\* The loop of send_message: push i carries f"{model}(i): {chunk}", written
\* here as the label, the index and the chunk.
TextPushes(message, label) ==
    LET cs == ChunksOfMessage[message]
    IN  [i \in 1..Len(cs) |->
            [kind |-> "text", label |-> label, index |-> i, chunk |-> cs[i]]]

\* WechatAdapter.send_message lines 155-164: after the chunks, a test image
\* and a test article are pushed to the user.
ExtraPushes(source, label) ==
    IF source = "wechat"
    THEN <<[kind |-> "image", label |-> label, index |-> 0, chunk |-> <<>>],
           [kind |-> "articles", label |-> label, index |-> 0, chunk |-> <<>>]>>
    ELSE <<>>

\* A slip that would deduplicate: a message a finished send_message already
\* sent to the user is not pushed again.
PushPlanOncePerMessage(source, user_id, message, label) ==
    IF \E r \in DOMAIN runs : \E k \in DOMAIN runs[r].sends :
           /\ runs[r].sends[k].user_id = user_id
           /\ runs[r].sends[k].message = message
           /\ runs[r].sends[k].returned = "True"
    THEN <<>>
    ELSE TextPushes(message, label) \o ExtraPushes(source, label)

\* The pushes one send_message call makes when none fails.
PushPlan(source, user_id, message, label) ==
    TextPushes(message, label) \o ExtraPushes(source, label)

\* A slip of the except clause: the loop goes on after a failed push.
AfterPushContinuing(plan, next, ok) ==
    IF next < Len(plan)
    THEN [done |-> FALSE, returned |-> "pending", next |-> next + 1]
    ELSE [done |-> TRUE, returned |-> IF ok THEN "True" ELSE "False", next |-> 0]

\* send_message after push number next of plan: a failed push raises, and
\* the except clause returns False; after the last push it returns True.
AfterPush(plan, next, ok) ==
    IF ~ok THEN [done |-> TRUE, returned |-> "False", next |-> 0]
    ELSE IF next < Len(plan)
    THEN [done |-> FALSE, returned |-> "pending", next |-> next + 1]
    ELSE [done |-> TRUE, returned |-> "True", next |-> 0]

IdleWorker == [pc |-> "idle", run |-> 0, plan |-> <<>>, next |-> 0]

\* The record of one execution of a task; order is its rank among the
\* executions that have returned, 0 until it returns.
NewRun(w, job, status) ==
    [worker |-> w, job |-> job, status |-> status, backend_calls |-> 0,
     outcome |-> "none", reply |-> <<>>, sends |-> <<>>, pushes |-> <<>>,
     order |-> 0]

\* The rank the next execution to return gets.
NextOrder(rs) ==
    Cardinality({r \in DOMAIN rs : rs[r].status = "returned"}) + 1

\* A slip of the broker: the newest job is handed out first.
QueuePickNewest(q) == Len(q)

\* The position in the queue of the job a worker is handed: the oldest.
QueuePick(q) == 1

QueueWithout(q, k) == SubSeq(q, 1, k - 1) \o SubSeq(q, k + 1, Len(q))

(***************************************************************************)
(* One execution of _process_request_task, with everything that can fail   *)
(* in it: the backend call, the construction of the adapter in the try     *)
(* block and in the except clause, and send_message, which returns False.  *)
(***************************************************************************)
\* str.upper() and the three str.replace() of WecomAdapter.__init__, on one
\* codepoint: '-', '.' and the hyphen of full width become '_'.
UpperChar(c) == IF c \in 97..122 THEN c - 32 ELSE c
ReplaceChar(c) == IF c \in {45, 46, 65293} THEN 95 ELSE c

\* env_key = f"{provider}_{model}".upper().replace(...) of two texts.
EnvKey(provider, model) ==
    LET t == provider \o <<95>> \o model
    IN  [i \in 1..Len(t) |-> ReplaceChar(UpperChar(t[i]))]

\* The keys <KEY> for which class Config has the attributes
\* WECOM_APP_SECRET_<KEY> and WECOM_AGENT_ID_<KEY> (config.py lines 35-57).
ConfigBindings ==
    {Ord[k] : k \in {"GROQ_DEEPSEEK_R1_DISTILL_LLAMA_70B", "TONGYIQIANWEN_QWQ_PLUS",
                     "DEEPSEEK_DS_V3", "TENCENT_DS_R1_671B",
                     "GEEKAI_GEMMA_3_27B_IT_FREE", "GEEKAI_MISTRAL_SMALL_FREE"}}

\* WecomAdapter.__init__: the app secret and the agent id of the adapter,
\* each named by its key; cfg holds the keys whose attribute has a value.
\* provider and model are texts; None, like '', is the empty text here
\* ("if provider and model").
WecomBinding(provider, model, cfg) ==
    LET custom == provider # <<>> /\ model # <<>>
        key == IF custom THEN EnvKey(provider, model) ELSE Ord["DEFAULT"]
    IN  [app_secret |-> IF custom /\ key \in ConfigBindings /\ key \in cfg.secrets
                        THEN key ELSE Ord["DEFAULT"],
         agent_id |-> IF custom /\ key \in ConfigBindings /\ key \in cfg.agents
                      THEN key ELSE Ord["DEFAULT"]]

\* The arguments each task gives WecomAdapter, in its try block and in its
\* except clause alike.
AdapterArgs(cls, model) ==
    CASE cls = "Tencent" ->
            [provider |-> Ord["Tencent"],
             model |-> Ord["DS-R1-671B, hyphens of full width"]]
      [] cls = "Geekai" -> [provider |-> Ord["Geekai"], model |-> Ord[model]]
      [] cls = "Tongyiqianwen" ->
            [provider |-> Ord["Tongyiqianwen"], model |-> Ord["QWQ-Plus"]]
      [] OTHER -> [provider |-> <<>>, model |-> <<>>]

\* The credentials of the adapter a task builds for its source; WechatAdapter
\* has one app id and secret.
TaskBinding(job, cfg) ==
    IF job.source = "wecom"
    THEN LET a == AdapterArgs(TaskProvider(job.task), job.model)
         IN  WecomBinding(a.provider, a.model, cfg)
    ELSE [app_secret |-> Ord["DEFAULT"], agent_id |-> Ord["DEFAULT"]]

\* One send_message call of the task, as the execution records it.
TaskSend(job, env, todo) ==
    [kind |-> todo.kind, source |-> job.source, user_id |-> job.user_id,
     message |-> todo.message, label |-> todo.label,
     binding |-> TaskBinding(job, env.cfg),
     returned |-> IF env.send_ok THEN "True" ELSE "False"]

\* A slip of the try block: a send_message that returned False is raised
\* as an error.
TryBlockRaisingOnFailedSend(job, env) ==
    IF env.out.raised
    THEN [raised |-> TRUE, exc |-> env.out.exc, backend_calls |-> 1, sends |-> <<>>]
    ELSE IF job.source \notin {"wechat", "wecom"}
    THEN [raised |-> FALSE, exc |-> None, backend_calls |-> 1, sends |-> <<>>]
    ELSE IF ~env.build_try
    THEN [raised |-> TRUE, exc |-> "error", backend_calls |-> 1, sends |-> <<>>]
    ELSE [raised |-> ~env.send_ok, exc |-> IF env.send_ok THEN None ELSE "error",
          backend_calls |-> 1,
          sends |-> <<TaskSend(job, env, AfterBackend(job, env.out))>>]

\* The try block: the backend call, the choice and the construction of the
\* adapter, and the send_message call, whose result is not looked at.
TryBlock(job, env) ==
    IF env.out.raised
    THEN [raised |-> TRUE, exc |-> env.out.exc, backend_calls |-> 1, sends |-> <<>>]
    ELSE IF job.source \notin {"wechat", "wecom"}
    THEN [raised |-> FALSE, exc |-> None, backend_calls |-> 1, sends |-> <<>>]
    ELSE IF ~env.build_try
    THEN [raised |-> TRUE, exc |-> "error", backend_calls |-> 1, sends |-> <<>>]
    ELSE [raised |-> FALSE, exc |-> None, backend_calls |-> 1,
          sends |-> <<TaskSend(job, env, AfterBackend(job, env.out))>>]

\* A slip of the except clause: the notification is not guarded.
ExceptClauseUnguarded(job, env, exc) ==
    IF job.source \notin {"wechat", "wecom"}
    THEN [propagated |-> FALSE, sends |-> <<>>, swallowed |-> FALSE]
    ELSE IF ~env.build_except
    THEN [propagated |-> TRUE, sends |-> <<>>, swallowed |-> FALSE]
    ELSE [propagated |-> FALSE, swallowed |-> FALSE,
          sends |-> <<TaskSend(job, env,
                               AfterBackend(job, [raised |-> TRUE, text |-> <<>>,
                                                  exc |-> exc]))>>]

\* The except clause: the error is logged, and inside try / bare except
\* the adapter is built again and the notice sent; an error there is
\* swallowed and logged.
ExceptClause(job, env, exc) ==
    IF job.source \notin {"wechat", "wecom"}
    THEN [propagated |-> FALSE, sends |-> <<>>, swallowed |-> FALSE]
    ELSE IF ~env.build_except
    THEN [propagated |-> FALSE, sends |-> <<>>, swallowed |-> TRUE]
    ELSE [propagated |-> FALSE, swallowed |-> FALSE,
          sends |-> <<TaskSend(job, env,
                               AfterBackend(job, [raised |-> TRUE, text |-> <<>>,
                                                  exc |-> exc]))>>]

\* _process_request_task: what one execution did.
ProcessRequestTask(job, env) ==
    LET t == TryBlock(job, env)
    IN  IF ~t.raised
        THEN [propagated |-> FALSE, swallowed |-> FALSE, caught |-> None,
              backend_calls |-> t.backend_calls, sends |-> t.sends]
        ELSE LET e == ExceptClause(job, env, t.exc)
             IN  [propagated |-> e.propagated, swallowed |-> e.swallowed,
                  caught |-> t.exc, backend_calls |-> t.backend_calls,
                  sends |-> t.sends \o e.sends]

NoTaskResult ==
    [propagated |-> FALSE, swallowed |-> FALSE, caught |-> None,
     backend_calls |-> 0, sends |-> <<>>]

(***************************************************************************)
(* The parts of the state a specification does not use stay as they are    *)
(* here.                                                                   *)
(***************************************************************************)
NoEnviron == [n \in {} |-> <<>>]
NoQuery == [signature |-> <<>>, msg_signature |-> "", timestamp |-> <<>>,
            nonce |-> <<>>, echostr |-> ""]
NoResponse == [status |-> 0, unhandled |-> None,
               body |-> [kind |-> "none", text |-> "", xml |-> NoDict]]
NoRequest == [method |-> "none", source |-> "", provider |-> "",
              model |-> None, query |-> NoQuery,
              body |-> [wellformed |-> FALSE, fields |-> NoDict]]

ChunkIdle ==
    /\ content = <<>> /\ max_length = 1 /\ chunks = <<>> /\ sc_pc = "idle"
VerifyIdle ==
    /\ environ = NoEnviron /\ vquery = NoQuery
    /\ vresponse = [status |-> 0, body |-> ""] /\ v_pc = "idle"
WebIdle ==
    /\ nreq = 0 /\ request = NoRequest /\ response = NoResponse
    /\ params = NoDict /\ handler = NoHandler /\ result = NoDict
    /\ calls = <<>> /\ queue = <<>>
WorkerIdle ==
    /\ workers = [w \in Workers |-> IdleWorker] /\ runs = <<>>
TaskIdle ==
    /\ t_job = NoDict /\ t_env = NoDict /\ t_result = NoTaskResult
    /\ t_pc = "idle"
FormatterIdle ==
    /\ parts = <<>> /\ sm_pc = "idle"
ProviderIdle ==
    /\ p_in = NoDict /\ p_out = NoDict /\ p_pc = "idle"
StreamIdle ==
    /\ stream = <<>> /\ acc = NoDict /\ full_content = <<>> /\ st_pc = "idle"

(***************************************************************************)
(* SpecSplit: split_content applied once to every text of at most          *)
(* MaxContentLen codepoints and every limit in 1..MaxLimit.                *)
(***************************************************************************)
InitSplit ==
    /\ content \in SeqsUpTo(Codepoints, MaxContentLen)
    /\ max_length \in 1..MaxLimit
    /\ chunks = <<>>
    /\ sc_pc = "call"
    /\ parts = <<>>
    /\ sm_pc = "call"
    /\ VerifyIdle /\ WebIdle /\ WorkerIdle /\ TaskIdle
    /\ ProviderIdle /\ StreamIdle

CallSplitContent ==
    /\ sc_pc = "call"
    /\ chunks' = split_content(content, max_length)
    /\ sc_pc' = "done"
    /\ UNCHANGED <<content, max_length>>
    /\ UNCHANGED verifyVars
    /\ UNCHANGED taskVars
    /\ UNCHANGED webVars
    /\ UNCHANGED workerVars
    /\ UNCHANGED <<formatterVars, providerVars, streamVars>>

\* The same text and limit given to MessageFormatter.split_message.
CallSplitMessage ==
    /\ sm_pc = "call"
    /\ parts' = split_message(content, max_length)
    /\ sm_pc' = "done"
    /\ UNCHANGED chunkVars
    /\ UNCHANGED verifyVars
    /\ UNCHANGED taskVars
    /\ UNCHANGED webVars
    /\ UNCHANGED workerVars
    /\ UNCHANGED <<providerVars, streamVars>>

NextSplit == CallSplitContent \/ CallSplitMessage

SpecSplit == InitSplit /\ [][NextSplit]_vars

(***************************************************************************)
(* SpecVerify: WechatAdapter.verify applied once to a GET.  The token is   *)
(* configured or not; the signature sent is missing, or is the digest for  *)
(* a triple that differs from the request's in at most one of token,       *)
(* timestamp and nonce.                                                    *)
(***************************************************************************)
Tokens == {<<97, 98>>, <<98, 97>>}
Environs == {NoEnviron} \cup {[n \in {"WECHAT_TOKEN"} |-> t] : t \in Tokens}
EchoStrings == {"abc123", ""}

SignaturesNear(timestamp, nonce) ==
    {<<>>}
    \cup {Sha1Hex(SignedString(t, timestamp, nonce)) : t \in Tokens}
    \cup {Sha1Hex(SignedString(t, s, nonce)) : t \in Tokens, s \in Strs}
    \cup {Sha1Hex(SignedString(t, timestamp, n)) : t \in Tokens, n \in Strs}

InitVerify ==
    /\ environ \in Environs
    /\ \E timestamp \in Strs, nonce \in Strs, echostr \in EchoStrings :
         \E signature \in SignaturesNear(timestamp, nonce) :
            vquery = [signature |-> signature, msg_signature |-> "",
                      timestamp |-> timestamp, nonce |-> nonce,
                      echostr |-> echostr]
    /\ vresponse = [status |-> 0, body |-> ""]
    /\ v_pc = "call"
    /\ ChunkIdle /\ WebIdle /\ WorkerIdle /\ TaskIdle
    /\ FormatterIdle /\ ProviderIdle /\ StreamIdle

CallVerify ==
    /\ v_pc = "call"
    /\ vresponse' = WechatVerify(environ, vquery)
    /\ v_pc' = "done"
    /\ UNCHANGED <<environ, vquery>>
    /\ UNCHANGED chunkVars
    /\ UNCHANGED webVars
    /\ UNCHANGED workerVars
    /\ UNCHANGED taskVars
    /\ UNCHANGED <<formatterVars, providerVars, streamVars>>

NextVerify == CallVerify

SpecVerify == InitVerify /\ [][NextVerify]_vars

(***************************************************************************)
(* Spec: the web-serving path.  Up to MaxRequests requests arrive, each    *)
(* GET or POST /<source>/<provider>[/<model>], and each is handled whole   *)
(* by handle_request; the jobs it enqueues stay in the broker's queue.     *)
(***************************************************************************)
Sources == {"wechat", "WeCom", "telegram"}
ProviderNames == {"groq", "tencent", "deepseek", "geekai", "tongyiqianwen",
                  "base", "openai"}
ModelSegments == {None, "m1"}
Users == {"u1", "u2"}

ConfiguredEnviron == [n \in {"WECHAT_TOKEN"} |-> <<97, 98>>]

\* The query of a verification GET: signed as both platforms expect, or
\* not signed.
GetQueries ==
    {[signature |-> Sha1Hex(SignedString(<<97, 98>>, <<98>>, <<97>>)),
      msg_signature |-> "valid", timestamp |-> <<98>>, nonce |-> <<97>>,
      echostr |-> "abc123"],
     [signature |-> <<>>, msg_signature |-> "", timestamp |-> <<98>>,
      nonce |-> <<97>>, echostr |-> "abc123"]}

Envelope(type, from_user) ==
    [MsgType |-> type, FromUserName |-> from_user, ToUserName |-> "gh_robot",
     CreateTime |-> "1700000000"]

NoBody == [wellformed |-> FALSE, fields |-> NoDict]

PostBodies ==
    {[wellformed |-> TRUE,
      fields |-> ("Content" :> "hello") @@ Envelope("text", u)] : u \in Users}
    \cup {[wellformed |-> TRUE,
           fields |-> ("PicUrl" :> "http://pic") @@ ("MediaId" :> "media1")
                      @@ Envelope("image", "u1")],
          [wellformed |-> TRUE,
           fields |-> ("Event" :> "subscribe") @@ Envelope("event", "u1")],
          [wellformed |-> TRUE,
           fields |-> ("MediaId" :> "media2") @@ Envelope("voice", "u1")],
          [wellformed |-> TRUE,
           fields |-> ("MediaId" :> "media3") @@ Envelope("image", "u1")],
          NoBody}

Requests ==
    {[method |-> "GET", source |-> s, provider |-> p, model |-> m,
      query |-> q, body |-> NoBody] :
        s \in Sources, p \in ProviderNames, m \in ModelSegments, q \in GetQueries}
    \cup
    {[method |-> "POST", source |-> s, provider |-> p, model |-> m,
      query |-> NoQuery, body |-> b] :
        s \in Sources, p \in ProviderNames, m \in ModelSegments, b \in PostBodies}

Init ==
    /\ ChunkIdle
    /\ environ = ConfiguredEnviron /\ vquery = NoQuery
    /\ vresponse = [status |-> 0, body |-> ""] /\ v_pc = "idle"
    /\ WebIdle
    /\ WorkerIdle /\ TaskIdle
    /\ FormatterIdle /\ ProviderIdle /\ StreamIdle

\* One request out of reqs arrives and is handled.
Serve(reqs) ==
    /\ nreq < MaxRequests
    /\ \E req \in reqs :
          LET done == HandleRequest(req, environ)
          IN  /\ request' = req
              /\ response' = done.response
              /\ params' = done.params
              /\ handler' = done.handler
              /\ result' = done.result
              /\ calls' = done.calls
              /\ queue' = queue \o done.jobs
    /\ nreq' = nreq + 1
    /\ UNCHANGED chunkVars
    /\ UNCHANGED verifyVars
    /\ UNCHANGED taskVars
    /\ UNCHANGED workerVars
    /\ UNCHANGED <<formatterVars, providerVars, streamVars>>

handle_request == Serve(Requests)

Next == handle_request

Spec == Init /\ [][Next]_vars

(***************************************************************************)
(* SpecSystem: the web-serving path together with the Celery workers.      *)
(* Text and image messages arrive for both platforms; each worker takes    *)
(* the job at the head of the broker's queue, calls the backend and sends  *)
(* the reply or the error notice push by push.  The backend call and every *)
(* push may fail.                                                          *)
(***************************************************************************)
SystemProviders == {"groq", "deepseek", "tencent"}

SystemRequests ==
    {[method |-> "POST", source |-> s, provider |-> p, model |-> "m1",
      query |-> NoQuery,
      body |-> [wellformed |-> TRUE,
                fields |-> ("Content" :> "hello") @@ Envelope("text", "u1")]] :
        s \in {"wechat", "wecom"}, p \in SystemProviders}
    \cup
    {[method |-> "POST", source |-> "wecom", provider |-> "groq",
      model |-> "m1", query |-> NoQuery,
      body |-> [wellformed |-> TRUE,
                fields |-> ("MediaId" :> "media1") @@ Envelope("image", "u1")]]}
    \cup
    {[method |-> "POST", source |-> "WeCom", provider |-> "groq",
      model |-> "m1", query |-> NoQuery,
      body |-> [wellformed |-> TRUE,
                fields |-> ("Content" :> "hello") @@ Envelope("text", "u1")]]}

receive_request == Serve(SystemRequests)

\* The worker takes the job at the head of the queue.  A task the worker
\* has not registered is rejected and its message discarded.
worker_receive(w) ==
    /\ workers[w].pc = "idle"
    /\ queue # <<>>
    /\ LET job == queue[QueuePick(queue)]
       IN  IF job.task \in WorkerTasks
           THEN /\ runs' = Append(runs, NewRun(w, job, "running"))
                /\ workers' = [workers EXCEPT
                                 ![w] = [IdleWorker EXCEPT !.pc = "backend",
                                                           !.run = Len(runs) + 1]]
           ELSE /\ runs' = Append(runs, NewRun(w, job, "unregistered"))
                /\ UNCHANGED workers
    /\ queue' = QueueWithout(queue, QueuePick(queue))
    /\ UNCHANGED <<nreq, request, response, params, handler, result, calls>>
    /\ UNCHANGED chunkVars
    /\ UNCHANGED verifyVars
    /\ UNCHANGED taskVars
    /\ UNCHANGED <<formatterVars, providerVars, streamVars>>

\* The task calls the backend, which answers or raises, and then calls
\* send_message, which splits the message before its first push.
call_backend(w) ==
    /\ workers[w].pc = "backend"
    /\ \E out \in BackendOutcomes :
          LET r == workers[w].run
              job == runs[r].job
              todo == AfterBackend(job, out)
              plan == IF todo.send
                      THEN PushPlan(job.source, job.user_id, todo.message,
                                    todo.label)
                      ELSE <<>>
              sent == [source |-> job.source, user_id |-> job.user_id,
                       kind |-> todo.kind, message |-> todo.message,
                       label |-> todo.label,
                       returned |-> IF plan = <<>> THEN "True" ELSE "pending"]
          IN  /\ runs' = [runs EXCEPT
                            ![r].backend_calls = @ + 1,
                            ![r].outcome = IF out.raised THEN "raised" ELSE "ok",
                            ![r].reply = out.text,
                            ![r].sends = IF todo.send THEN Append(@, sent) ELSE @,
                            ![r].status = IF plan = <<>> THEN "returned" ELSE @,
                            ![r].order = IF plan = <<>> THEN NextOrder(runs) ELSE @]
              /\ workers' = [workers EXCEPT
                               ![w] = IF plan = <<>> THEN IdleWorker
                                      ELSE [pc |-> "push", run |-> r,
                                            plan |-> plan, next |-> 1]]
    /\ UNCHANGED webVars
    /\ UNCHANGED chunkVars
    /\ UNCHANGED verifyVars
    /\ UNCHANGED taskVars
    /\ UNCHANGED <<formatterVars, providerVars, streamVars>>

\* send_message makes its next push and sleeps; a push that fails ends the
\* call, which returns False, and with it the task.
push(w) ==
    /\ workers[w].pc = "push"
    /\ \E ok \in BOOLEAN :
          LET r == workers[w].run
              plan == workers[w].plan
              next == workers[w].next
              after == AfterPush(plan, next, ok)
              k == Len(runs[r].sends)
          IN  /\ runs' = [runs EXCEPT
                            ![r].pushes = Append(@, plan[next] @@ [ok |-> ok]),
                            ![r].sends[k].returned = after.returned,
                            ![r].status = IF after.done THEN "returned" ELSE @,
                            ![r].order = IF after.done THEN NextOrder(runs) ELSE @]
              /\ workers' = [workers EXCEPT
                               ![w] = IF after.done THEN IdleWorker
                                      ELSE [@ EXCEPT !.next = after.next]]
    /\ UNCHANGED webVars
    /\ UNCHANGED chunkVars
    /\ UNCHANGED verifyVars
    /\ UNCHANGED taskVars
    /\ UNCHANGED <<formatterVars, providerVars, streamVars>>

NextSystem ==
    \/ receive_request
    \/ \E w \in Workers : worker_receive(w)
    \/ \E w \in Workers : call_backend(w)
    \/ \E w \in Workers : push(w)

SpecSystem == Init /\ [][NextSystem]_vars

\* The workers keep taking jobs, the backend answers or fails, and a push
\* returns or fails: no step of a worker is postponed for ever.
WorkerFairness ==
    \A w \in Workers :
        /\ WF_vars(worker_receive(w))
        /\ WF_vars(call_backend(w))
        /\ WF_vars(push(w))

SpecSystemFair == SpecSystem /\ WorkerFairness

(***************************************************************************)
(* Specification of one task execution: _process_request_task of any       *)
(* provider applied to one job, in any of the situations it can meet.      *)
(***************************************************************************)
TrialSources == {"wechat", "wecom", "telegram"}
TrialModels == {"m1", "deepseek-r1-distill-llama-70b", "gemma-3-27b-it:free"}

\* The environment sets every app secret of config.py or the default one
\* only, and likewise, independently, the agent ids.
TrialConfigs ==
    {[secrets |-> a, agents |-> b] : a, b \in {{}, ConfigBindings}}

TrialJobs ==
    {[task |-> TaskName[c], user_id |-> "u1", query |-> "hello", model |-> m,
      source |-> s] : c \in DOMAIN TaskName, m \in TrialModels, s \in TrialSources}

TrialEnvs ==
    {[out |-> o, build_try |-> bt, build_except |-> be, send_ok |-> ok, cfg |-> c] :
        o \in BackendOutcomes, bt \in BOOLEAN, be \in BOOLEAN, ok \in BOOLEAN,
        c \in TrialConfigs}

InitTask ==
    /\ ChunkIdle /\ VerifyIdle /\ WebIdle /\ WorkerIdle
    /\ FormatterIdle /\ ProviderIdle /\ StreamIdle
    /\ t_job \in TrialJobs
    /\ t_env \in TrialEnvs
    /\ t_result = NoTaskResult
    /\ t_pc = "call"

process_request_task ==
    /\ t_pc = "call"
    /\ t_result' = ProcessRequestTask(t_job, t_env)
    /\ t_pc' = "done"
    /\ UNCHANGED <<t_job, t_env>>
    /\ UNCHANGED chunkVars
    /\ UNCHANGED verifyVars
    /\ UNCHANGED webVars
    /\ UNCHANGED workerVars
    /\ UNCHANGED <<formatterVars, providerVars, streamVars>>

NextTask == process_request_task

SpecTask == InitTask /\ [][NextTask]_vars

(***************************************************************************)
(* SpecProvider: one provider handler built with or without a model path   *)
(* segment, under every choice of the model variables the environment      *)
(* sets, and asked to process one message.                                 *)
(***************************************************************************)
\* Class Config under an environment that sets some of the model variables.
ProviderSettings ==
    {f \in [DOMAIN ConfigModels -> {None} \cup {ConfigModels[a] : a \in DOMAIN ConfigModels}] :
        \A a \in DOMAIN ConfigModels : f[a] \in {None, ConfigModels[a]}}

ProviderMessages ==
    {[msg_type |-> "text", from_user |-> "u1", to_user |-> "svc",
      content |-> "hello", source |-> s] : s \in {"wechat", "wecom"}}
    \cup {[msg_type |-> "image", from_user |-> "u1", to_user |-> "svc",
            source |-> s] : s \in {"wechat", "wecom"}}

InitProvider ==
    /\ ChunkIdle /\ VerifyIdle /\ WebIdle /\ WorkerIdle /\ TaskIdle
    /\ FormatterIdle /\ StreamIdle
    /\ p_in \in [cls : DOMAIN DefaultModelAttr, model : TaskModels \cup {None},
                  settings : ProviderSettings, message : ProviderMessages]
    /\ p_out = NoDict
    /\ p_pc = "call"

\* handler = <Provider>(model); handler.process(params).
provider_process ==
    /\ p_pc = "call"
    /\ p_out' = LET made == ProviderInitWith(p_in.cls, p_in.model, p_in.settings)
                IN  IF made.raised
                    THEN [raised |-> TRUE, handler |-> NoHandler, jobs |-> <<>>]
                    ELSE [raised |-> FALSE, handler |-> made.handler,
                          jobs |-> ProviderProcess(made.handler, p_in.message).jobs]
    /\ p_pc' = "done"
    /\ UNCHANGED p_in
    /\ UNCHANGED chunkVars
    /\ UNCHANGED verifyVars
    /\ UNCHANGED webVars
    /\ UNCHANGED workerVars
    /\ UNCHANGED taskVars
    /\ UNCHANGED <<formatterVars, streamVars>>

NextProvider == provider_process

SpecProvider == InitProvider /\ [][NextProvider]_vars

(***************************************************************************)
(* SpecStream: the Tencent task reads one stream of the backend, chunk by  *)
(* chunk, and builds full_content (tencent_service.py lines 81-127).  A    *)
(* text is a list of pieces, so that the order of what was appended shows. *)
(***************************************************************************)
\* str(token_usage) for the numbers of the model, which have one digit.
Digits == <<"0", "1", "2", "3", "4", "5", "6", "7", "8", "9">>
Str(n) == Digits[n + 1]

\* The chunks of a stream: the usage chunk (total_tokens 7), which has no
\* choices, and the deltas, whose usage is absent (0 here): empty, of
\* reasoning, of answer, of both, and of an answer with an empty
\* reasoning_content.
StreamChunks ==
    {[usage |-> 7, choices |-> FALSE, reasoning_content |-> None, content |-> None],
     [usage |-> 0, choices |-> TRUE, reasoning_content |-> None, content |-> None],
     [usage |-> 0, choices |-> TRUE, reasoning_content |-> "r", content |-> None],
     [usage |-> 0, choices |-> TRUE, reasoning_content |-> None, content |-> "a"],
     [usage |-> 0, choices |-> TRUE, reasoning_content |-> "r", content |-> "a"],
     [usage |-> 0, choices |-> TRUE, reasoning_content |-> "", content |-> "a"]}

\* Python's truth of an attribute read with getattr(delta, name, None).
Truthy(text) == text # None /\ text # ""

\* Lines 81-84 and 97: the locals before the loop.
StreamStart ==
    [reasoning_content |-> <<"<think>", "\n">>, answer_content |-> <<>>,
     is_answering |-> FALSE, token_usage |-> 0, read |-> 0]

\* One iteration of the loop, lines 99-125.
StreamStep(a, chunk) ==
    LET u == IF chunk.usage # 0 THEN chunk.usage ELSE a.token_usage
        counted == [a EXCEPT !.token_usage = u, !.read = @ + 1]
        closing == ~Truthy(chunk.reasoning_content) /\ ~a.is_answering
        closed == IF closing
                  THEN [counted EXCEPT !.reasoning_content = Append(@, "</think>"),
                                       !.is_answering = TRUE]
                  ELSE counted
    IN  IF ~chunk.choices THEN counted
        ELSE IF ~Truthy(chunk.reasoning_content) /\ ~Truthy(chunk.content)
        THEN counted
        ELSE IF Truthy(chunk.reasoning_content)
        THEN [closed EXCEPT !.reasoning_content = Append(@, chunk.reasoning_content)]
        ELSE [closed EXCEPT !.answer_content = Append(@, chunk.content)]

\* Line 127.
StreamFullContent(a) ==
    <<"Token_usage: ", Str(a.token_usage), "\n">>
        \o a.reasoning_content \o a.answer_content

InitStream ==
    /\ ChunkIdle /\ VerifyIdle /\ WebIdle /\ WorkerIdle /\ TaskIdle
    /\ FormatterIdle /\ ProviderIdle
    /\ stream \in SeqsUpTo(StreamChunks, MaxStreamLen)
    /\ acc = NoDict
    /\ full_content = <<>>
    /\ st_pc = "call"

StreamUnchanged ==
    /\ UNCHANGED chunkVars
    /\ UNCHANGED verifyVars
    /\ UNCHANGED webVars
    /\ UNCHANGED workerVars
    /\ UNCHANGED taskVars
    /\ UNCHANGED <<formatterVars, providerVars>>

\* The request is made and the opening marker written.
stream_open ==
    /\ st_pc = "call"
    /\ acc' = StreamStart
    /\ st_pc' = "loop"
    /\ UNCHANGED <<stream, full_content>>
    /\ StreamUnchanged

\* for chunk in stream: the next chunk is read.
stream_next ==
    /\ st_pc = "loop"
    /\ acc.read < Len(stream)
    /\ acc' = StreamStep(acc, stream[acc.read + 1])
    /\ UNCHANGED <<stream, full_content, st_pc>>
    /\ StreamUnchanged

\* The stream is exhausted and full_content built.
stream_end ==
    /\ st_pc = "loop"
    /\ acc.read = Len(stream)
    /\ full_content' = StreamFullContent(acc)
    /\ st_pc' = "done"
    /\ UNCHANGED <<stream, acc>>
    /\ StreamUnchanged

NextStream == stream_open \/ stream_next \/ stream_end

SpecStream == InitStream /\ [][NextStream]_vars

(***************************************************************************)
(* Claims about split_content (SpecSplit).                                 *)
(***************************************************************************)
OversizedCodepoint(chunk) ==
    Len(chunk) = 1 /\ Utf8Len(chunk[1]) > max_length

\* C1 as stated: every chunk split_content returns is at most max_length
\* bytes of UTF-8, also when the text holds a codepoint longer than
\* max_length.
C1_EveryChunkWithinLimit ==
    sc_pc = "done" =>
        \A i \in DOMAIN chunks : Utf8Size(chunks[i]) <= max_length

\* C1 as amended: every chunk split_content returns is at most max_length
\* bytes of UTF-8, or is a single codepoint whose own encoding is longer than
\* max_length.
C1_ChunkWithinLimitOrOneCodepoint ==
    sc_pc = "done" =>
        \A i \in DOMAIN chunks :
            Utf8Size(chunks[i]) <= max_length \/ OversizedCodepoint(chunks[i])

\* A text of several chunks, one filled to the limit with more than one
\* codepoint and one that is a codepoint longer than the limit.
C1_Witness ==
    /\ sc_pc = "done"
    /\ Len(chunks) >= 3
    /\ \E i \in DOMAIN chunks :
          Len(chunks[i]) >= 2 /\ Utf8Size(chunks[i]) = max_length
    /\ \E i \in DOMAIN chunks : OversizedCodepoint(chunks[i])

\* C2: the chunks split_content returns, concatenated in order, are the
\* input: every codepoint is in exactly one chunk, in the original order.
C2_ConcatenationIsInput ==
    sc_pc = "done" => Flatten(chunks) = content

\* A multi-byte text cut into several chunks.
C2_Witness ==
    /\ sc_pc = "done"
    /\ Len(chunks) >= 2
    /\ Len(content) = MaxContentLen
    /\ \E i \in DOMAIN content : Utf8Len(content[i]) > 1
    /\ \A i \in DOMAIN chunks : chunks[i] # <<>>

\* C3 as stated: split_content returns no empty chunk; the empty text gives
\* no chunk at all.
C3_NoEmptyChunk ==
    sc_pc = "done" =>
        /\ \A i \in DOMAIN chunks : chunks[i] # <<>>
        /\ (content = <<>> => chunks = <<>>)

\* The case C3 names: the first codepoint alone is longer than the limit.
C3_Witness ==
    /\ sc_pc = "done"
    /\ content # <<>>
    /\ Utf8Len(content[1]) > max_length

(***************************************************************************)
(* Claims about WechatAdapter.verify (SpecVerify).                         *)
(***************************************************************************)
Perms3 == {p \in [1..3 -> 1..3] : \A i, j \in 1..3 : i # j => p[i] # p[j]}

\* The concatenation of a, b and c taken in lexicographic order.
SortedConcat(a, b, c) ==
    LET l == <<a, b, c>>
        p == CHOOSE q \in Perms3 :
                \A i \in 1..2 : ~StrLess(l[q[i + 1]], l[q[i]])
    IN  l[p[1]] \o l[p[2]] \o l[p[3]]

Verified == v_pc = "done" /\ "WECHAT_TOKEN" \in DOMAIN environ

\* C4: with a token configured, a GET is accepted if and only if its
\* signature is the SHA-1 hex digest of the sorted token, timestamp and nonce
\* concatenated; accepted, it is answered with the echostr and status 200,
\* and otherwise with status 403.
C4_AcceptedIffDigestMatches ==
    Verified =>
        IF vquery.signature
             = Sha1Hex(SortedConcat(environ["WECHAT_TOKEN"], vquery.timestamp,
                                    vquery.nonce))
        THEN vresponse = [status |-> 200, body |-> vquery.echostr]
        ELSE vresponse.status = 403

\* An accepted GET whose three strings are not sent in sorted order and
\* whose echostr is "abc123".
C4_Witness ==
    /\ Verified
    /\ vresponse = [status |-> 200, body |-> "abc123"]
    /\ StrLess(vquery.nonce, vquery.timestamp)
    /\ StrLess(vquery.timestamp, environ["WECHAT_TOKEN"])

Accepts(tok, signature, timestamp, nonce) ==
    WechatVerify([n \in {"WECHAT_TOKEN"} |-> tok],
                 [vquery EXCEPT !.signature = signature,
                                !.timestamp = timestamp,
                                !.nonce = nonce]).status = 200

AcceptedGet == Verified /\ vresponse.status = 200

\* C5 as stated: an accepted GET is rejected after a change of any single
\* one of token, timestamp, nonce and signature.
C5_AnySingleChangeRejects ==
    AcceptedGet =>
        LET tok == environ["WECHAT_TOKEN"]
            q == vquery
        IN  /\ \A t \in Strs \ {tok} :
                  ~Accepts(t, q.signature, q.timestamp, q.nonce)
            /\ \A s \in Strs \ {q.timestamp} :
                  ~Accepts(tok, q.signature, s, q.nonce)
            /\ \A n \in Strs \ {q.nonce} :
                  ~Accepts(tok, q.signature, q.timestamp, n)
            /\ \A g \in SignaturesNear(q.timestamp, q.nonce) \ {q.signature} :
                  ~Accepts(tok, g, q.timestamp, q.nonce)

\* C5 as amended: an accepted GET is rejected after any change of the
\* signature alone, and after a change of one of token, timestamp and nonce
\* exactly when the change alters the concatenation of the three sorted
\* strings.
C5_SingleChangeRejectsIffConcatChanges ==
    AcceptedGet =>
        LET tok == environ["WECHAT_TOKEN"]
            q == vquery
            signed == SortedConcat(tok, q.timestamp, q.nonce)
        IN  /\ \A t \in Strs \ {tok} :
                  Accepts(t, q.signature, q.timestamp, q.nonce)
                     <=> SortedConcat(t, q.timestamp, q.nonce) = signed
            /\ \A s \in Strs \ {q.timestamp} :
                  Accepts(tok, q.signature, s, q.nonce)
                     <=> SortedConcat(tok, s, q.nonce) = signed
            /\ \A n \in Strs \ {q.nonce} :
                  Accepts(tok, q.signature, q.timestamp, n)
                     <=> SortedConcat(tok, q.timestamp, n) = signed
            /\ \A g \in SignaturesNear(q.timestamp, q.nonce) \ {q.signature} :
                  ~Accepts(tok, g, q.timestamp, q.nonce)

\* An accepted GET that another token leaves accepted: token "ab" with
\* nonce "aba" signs the same string as token "ba" with nonce "aba".
C5_Witness ==
    /\ AcceptedGet
    /\ \E t \in Strs \ {environ["WECHAT_TOKEN"]} :
          Accepts(t, vquery.signature, vquery.timestamp, vquery.nonce)
    /\ \E s \in Strs \ {vquery.timestamp} :
          ~Accepts(environ["WECHAT_TOKEN"], vquery.signature, s, vquery.nonce)

(***************************************************************************)
(* Claims about the dispatch of a request (Spec).                          *)
(***************************************************************************)
RegisteredPlatforms == {"wechat", "wecom"}
RegisteredProviders == {"groq", "tencent", "deepseek", "geekai", "tongyiqianwen"}

Handled == nreq > 0
Called(op) == \E i \in DOMAIN calls : calls[i] = op
CalledNext(op) == \E i \in DOMAIN calls' : calls'[i] = op

RegisteredTarget ==
    /\ Lower(request.source) \in RegisteredPlatforms
    /\ Lower(request.provider) \in RegisteredProviders

\* C6 as stated: for a registered platform and a registered provider, with
\* or without a model segment, SourceProcessor(source) and
\* _create_provider_handler(provider, model) both return and raise nothing.
C6_RegisteredTargetResolves ==
    (Handled /\ RegisteredTarget) =>
        /\ ~LoadAdapter(request.source).raised
        /\ ~CreateProviderHandler(request.provider, request.model).raised
        /\ response.unhandled # "ValueError"

\* A registered target without a model segment that does resolve.
C6_Witness ==
    /\ Handled /\ RegisteredTarget
    /\ request.model = None
    /\ Called("process")
    /\ handler.model = ConfigModels[DefaultModelAttr[handler.cls]]

\* The request ended in extract_params, before the provider was looked up.
ExtractionRaised == response.unhandled \in {"ParseError", "AttributeError"}

\* C7 as stated: a request whose platform or provider is not registered is
\* answered with a client error (4xx); no exception leaves handle_request
\* and the request does not succeed.  (Stated for the requests that do not
\* already end in an exception of extract_params.)
C7_UnknownTargetIsClientError ==
    (Handled /\ ~RegisteredTarget /\ ~ExtractionRaised) =>
        /\ response.status \in 400..499
        /\ response.unhandled = None

\* A POST for a registered platform and a provider that is not registered.
C7_Witness ==
    /\ Handled /\ ~RegisteredTarget
    /\ Lower(request.source) \in RegisteredPlatforms
    /\ request.method = "POST"
    /\ Called("create_provider_handler")

\* C8: process() on a message without text content returns a result with
\* async false and the non-empty text-only notice as content, and enqueues
\* no job: the queue is as it was before the request.
C8_NonTextIsSyncAndEnqueuesNothing ==
    [][(CalledNext("process") /\ "content" \notin DOMAIN params') =>
          /\ "async" \in DOMAIN result' /\ result'.async = FALSE
          /\ "content" \in DOMAIN result'
          /\ result'.content = TEXT_ONLY_NOTICE /\ result'.content # ""
          /\ ~CalledNext("delay")
          /\ queue' = queue]_vars

\* An image handled by a provider while a job of an earlier request waits.
C8_Witness ==
    /\ Handled /\ Called("process")
    /\ "msg_type" \in DOMAIN params /\ params.msg_type \in {"image", "event"}
    /\ "content" \notin DOMAIN params
    /\ result.async = FALSE
    /\ Len(queue) = 1

\* C9: process() on a text message enqueues exactly one job, whose user is
\* the message's sender, whose query is its text, whose model is the
\* handler's model and whose source is the message's source, and returns
\* async true with the job still waiting in the queue.
C9_TextEnqueuesOneJob ==
    [][(CalledNext("process") /\ "content" \in DOMAIN params') =>
          /\ Len(queue') = Len(queue) + 1
          /\ SubSeq(queue', 1, Len(queue)) = queue
          /\ LET job == queue'[Len(queue')]
             IN  /\ job.user_id = params'.from_user
                 /\ job.user_id = request'.body.fields.FromUserName
                 /\ job.query = params'.content
                 /\ job.query = request'.body.fields.Content
                 /\ job.model = handler'.model
                 /\ job.source = params'.source
                 /\ job.source = Lower(request'.source)
          /\ "async" \in DOMAIN result' /\ result'.async = TRUE]_vars

\* Two text messages of two users, each with its own job in the queue.
C9_Witness ==
    /\ nreq = 2 /\ Called("process") /\ "content" \in DOMAIN params
    /\ Len(queue) = 2
    /\ queue[1].user_id # queue[2].user_id
    /\ queue[2].user_id = params.from_user
    /\ queue[2].query = "hello"
    /\ result.async = TRUE

\* The content of the reply a response carries (an encrypted envelope read
\* after decryption), None when it carries none.
ReplyContent(resp) ==
    IF resp.body.kind \in {"xml", "encrypted"} /\ "Content" \in DOMAIN resp.body.xml
    THEN resp.body.xml.Content
    ELSE None

AcceptedText ==
    /\ Handled /\ Called("format_response")
    /\ "async" \in DOMAIN result /\ result.async

\* C10 as stated: for both adapters the response to a POST carrying a text
\* message (a result with async true) has the fixed 'processing' placeholder
\* as its reply content.
C10_AcceptedReplyIsPlaceholder ==
    AcceptedText => ReplyContent(response) = PROCESSING_PLACEHOLDER

\* A text POST answered by WecomAdapter, whose reply is the placeholder.
C10_Witness ==
    /\ AcceptedText
    /\ params.source = "wecom"
    /\ ReplyContent(response) = PROCESSING_PLACEHOLDER

(***************************************************************************)
(* Claims about a POST whose message cannot be extracted (Spec).           *)
(***************************************************************************)
Posted == Handled /\ request.method = "POST" /\ Called("extract_params")

\* The body does not parse, or its message type is none the adapters know,
\* or it lacks a field the adapter reads for its type.
BadEnvelope(req) ==
    \/ ~req.body.wellformed
    \/ req.body.fields.MsgType \notin {"text", "image", "event"}
    \/ /\ Lower(req.source) = "wechat"
       /\ req.body.fields.MsgType = "image"
       /\ "PicUrl" \notin DOMAIN req.body.fields

\* extract_params raised, or returned the error value {'error': ...}.
ExtractionFailed == ExtractionRaised \/ "error" \in DOMAIN params

\* C15 as stated: for both adapters no exception leaves extract_params, and
\* a malformed body, a missing field or an unknown message type gives an
\* explicit error value that carries the reason.
C15_ExtractionNeverRaises ==
    Posted =>
        /\ ~ExtractionRaised
        /\ BadEnvelope(request) => "error" \in DOMAIN params

\* A body that does not parse, posted to the plain platform.
C15_Witness ==
    /\ Posted /\ ~request.body.wellformed
    /\ Lower(request.source) = "wechat"
    /\ ExtractionRaised

\* C16 as stated: on a POST whose extraction failed the response is a
\* client error (4xx), the provider handler is not constructed and its
\* process() is not invoked.
C16_FailedExtractionIsClientError ==
    (Posted /\ ExtractionFailed) =>
        /\ response.status \in 400..499
        /\ ~Called("create_provider_handler")
        /\ ~Called("process")

\* A failed extraction of the encrypted platform that reaches process().
C16_Witness ==
    /\ Posted /\ ExtractionFailed
    /\ "error" \in DOMAIN params
    /\ Called("process")
    /\ response.status = 500

\* The request handled by this step is a POST whose extraction failed or
\* whose message type is not supported.
FailedOrUnsupportedNext ==
    /\ nreq' = nreq + 1
    /\ request'.method = "POST"
    /\ CalledNext("extract_params")
    /\ \/ response'.unhandled \in {"ParseError", "AttributeError"}
       \/ "error" \in DOMAIN params'
       \/ (request'.body.wellformed
           /\ request'.body.fields.MsgType \notin {"text", "image", "event"})

\* C17: the handling of a POST whose extraction fails, or whose envelope is
\* of an unsupported type, enqueues no job: the queue is as it was.
C17_FailedExtractionEnqueuesNothing ==
    [][FailedOrUnsupportedNext => (queue' = queue /\ ~CalledNext("delay"))]_vars

\* A failed extraction that reached process() while a job of an earlier
\* request waits in the queue.
C17_Witness ==
    /\ Posted /\ "error" \in DOMAIN params /\ Called("process")
    /\ Len(queue) = 1

SyncReply ==
    /\ Handled /\ Called("format_response")
    /\ "async" \in DOMAIN result /\ ~result.async

\* C18 as stated: for both adapters format_response on a result with async
\* false gives a response whose reply content is the result's content, or
\* the fallback string when the result has none.
C18_SyncReplyEmbedsContent ==
    SyncReply =>
        ReplyContent(response)
            = IF "content" \in DOMAIN result THEN result.content ELSE NO_RESPONSE

\* The text-only notice on its way to a user of the encrypted platform.
C18_Witness ==
    /\ SyncReply
    /\ result.content = TEXT_ONLY_NOTICE
    /\ response.status = 200
    /\ params.source = "wecom"

(***************************************************************************)
(* Claims about the deferred jobs and their delivery (SpecSystem).         *)
(***************************************************************************)
Runs == DOMAIN runs
Executed == {r \in Runs : runs[r].status # "unregistered"}
Returned == {r \in Runs : runs[r].status = "returned"}

\* The chunks send_message makes of the message of the run's send_message
\* call.
SentChunks(r) == ChunksOfMessage[runs[r].sends[1].message]
TextPushesOf(r) ==
    {i \in DOMAIN runs[r].pushes : runs[r].pushes[i].kind = "text"}

\* C11: a run whose backend call raised made that one backend call and one
\* send_message call, to the job's user on the job's platform, with the
\* provider's error notice; every text it pushed is a chunk of the notice;
\* and once the task has returned its worker is idle or at a later job.
C11_BackendErrorGivesOneNotice ==
    \A r \in Executed :
        runs[r].outcome = "raised" =>
            /\ runs[r].backend_calls = 1
            /\ Len(runs[r].sends) = 1
            /\ runs[r].sends[1].kind = "notice"
            /\ runs[r].sends[1].user_id = runs[r].job.user_id
            /\ runs[r].sends[1].source = runs[r].job.source
            /\ runs[r].sends[1].message
                 = ErrorNotice(TaskProvider(runs[r].job.task), "Connection error.")
            /\ \A i \in TextPushesOf(r) :
                  runs[r].pushes[i].chunk = runs[r].sends[1].message
            /\ r \in Returned =>
                  /\ workers[runs[r].worker].run # r
                  /\ workers[runs[r].worker].pc \in {"idle", "backend", "push"}

\* A job whose backend call raised and whose notice was pushed, and a later
\* job the same worker has executed to the end.
C11_Witness ==
    \E r1, r2 \in Returned :
        /\ r1 < r2
        /\ runs[r1].worker = runs[r2].worker
        /\ runs[r1].outcome = "raised"
        /\ Len(runs[r1].pushes) >= 1 /\ runs[r1].pushes[1].ok
        /\ runs[r2].outcome = "ok"
        /\ runs[r2].sends[1].returned = "True"

\* The run delivered its whole reply: the backend answered and send_message
\* returned True.
Delivered(r) ==
    /\ r \in Returned
    /\ runs[r].outcome = "ok"
    /\ Len(runs[r].sends) = 1
    /\ runs[r].sends[1].returned = "True"

\* C12: two executions of the same job whose backend calls return the same
\* text and whose pushes all succeed push, together, twice the chunks of
\* the reply: the second execution is not deduplicated.
C12_SameJobTwiceSendsTwice ==
    \A r1, r2 \in Returned :
        (/\ r1 < r2
         /\ runs[r1].job = runs[r2].job
         /\ runs[r1].reply = runs[r2].reply
         /\ Delivered(r1) /\ Delivered(r2)) =>
            Cardinality(TextPushesOf(r1)) + Cardinality(TextPushesOf(r2))
                = 2 * Len(SentChunks(r1))

\* The same job executed twice, each execution pushing the three chunks of
\* the same reply.
C12_Witness ==
    \E r1, r2 \in Returned :
        /\ r1 < r2
        /\ runs[r1].job = runs[r2].job
        /\ runs[r1].reply = runs[r2].reply
        /\ Delivered(r1) /\ Delivered(r2)
        /\ Cardinality(TextPushesOf(r1)) = 3
        /\ Cardinality(TextPushesOf(r2)) = 3

\* C13: the text pushes of a send_message call are made in increasing
\* order: the i-th push carries the label given to send_message, the index
\* i and the i-th chunk of split_content(message, 2000); and a push is made
\* only after every push before it has returned without failing.
C13_PushesInOrderWithPrefix ==
    \A r \in Executed :
        /\ \A i \in DOMAIN runs[r].pushes :
              /\ i < Len(runs[r].pushes) => runs[r].pushes[i].ok
              /\ runs[r].pushes[i].kind = "text" =>
                    /\ i <= Len(SentChunks(r))
                    /\ runs[r].pushes[i].index = i
                    /\ runs[r].pushes[i].label = runs[r].sends[1].label
                    /\ runs[r].pushes[i].chunk = SentChunks(r)[i]
        /\ Delivered(r) => Cardinality(TextPushesOf(r)) = Len(SentChunks(r))

\* A reply of three chunks pushed to the end.
C13_Witness ==
    \E r \in Returned :
        /\ Delivered(r)
        /\ Cardinality(TextPushesOf(r)) = 3
        /\ runs[r].pushes[3].index = 3
        /\ runs[r].pushes[3].label = <<"Groq", "m1">>

\* C14: when push k of a send_message call fails, the call returns False
\* and the task returns; the pushes before k were made once each, in order,
\* and succeeded; push k is the last the call made.
C14_FailedPushEndsDelivery ==
    \A r \in Executed :
        \A k \in DOMAIN runs[r].pushes :
            ~runs[r].pushes[k].ok =>
                /\ k = Len(runs[r].pushes)
                /\ runs[r].sends[1].returned = "False"
                /\ r \in Returned
                /\ workers[runs[r].worker].run # r
                /\ \A i \in 1..(k - 1) :
                      /\ runs[r].pushes[i].ok
                      /\ runs[r].pushes[i].kind = "text" =>
                            runs[r].pushes[i].index = i

\* The second of three chunks failed: one chunk pushed, the third never.
C14_Witness ==
    \E r \in Returned :
        /\ Len(SentChunks(r)) = 3
        /\ Len(runs[r].pushes) = 2
        /\ runs[r].pushes[1].ok /\ ~runs[r].pushes[2].ok
        /\ runs[r].sends[1].returned = "False"

\* C19: the result of an accepted text message holds no content or only the
\* fixed 'being processed' text, the reply of a response is absent or the
\* adapters' placeholder, and handling a request makes no backend call; the
\* text a backend returned is in the message of the send_message call of
\* the job that asked for it, and every text pushed is a chunk of that
\* message.
C19_BackendTextOnlyThroughJob ==
    /\ Handled =>
          /\ ("async" \in DOMAIN result /\ result.async) =>
                ("content" \in DOMAIN result => result.content = BEING_PROCESSED)
          /\ ReplyContent(response) \in {None, PROCESSING_PLACEHOLDER}
          /\ ~Called("call_backend")
    /\ \A r \in Executed :
          runs[r].outcome = "ok" =>
              /\ runs[r].sends[1].kind = "reply"
              /\ runs[r].sends[1].message
                   = FullContent(TaskProvider(runs[r].job.task),
                                 runs[r].job.model, runs[r].reply)
              /\ \A i \in TextPushesOf(r) :
                    /\ i <= Len(SentChunks(r))
                    /\ runs[r].pushes[i].chunk = SentChunks(r)[i]

\* A text message answered with the placeholder, and the backend's text of
\* three chunks pushed to the user by the job.
C19_Witness ==
    /\ Handled /\ result.async
    /\ ReplyContent(response) = PROCESSING_PLACEHOLDER
    /\ \E r \in Returned :
          /\ Delivered(r)
          /\ runs[r].reply # <<>>
          /\ Cardinality(TextPushesOf(r)) = 3

\* C20: the step that answers a request runs no task: it leaves every
\* execution and every worker as they are, calls neither the backend nor
\* send_message, and its response is the one handle_request computes from
\* the request alone; a step of a worker leaves the response as it is.
C20_WebPathRunsNoTask ==
    [][/\ nreq' # nreq =>
            /\ runs' = runs /\ workers' = workers
            /\ ~CalledNext("call_backend") /\ ~CalledNext("send_message")
            /\ response' = HandleRequest(request', environ).response
       /\ (runs' # runs \/ workers' # workers) =>
            /\ nreq' = nreq /\ response' = response /\ calls' = calls]_vars

\* A second text message is answered while the job of the first is being
\* executed and its own job waits in the queue.
C20_Witness ==
    /\ nreq = 2
    /\ response.status = 200 /\ result.async
    /\ Called("delay") /\ queue # <<>>
    /\ \E r \in Runs : runs[r].status = "running" /\ runs[r].backend_calls = 0

(***************************************************************************)
(* Claims about the handling of any request (Spec).                        *)
(***************************************************************************)
\* C21 as stated: every request ends in a response the application
\* produced; no exception leaves handle_request.
C21_NoExceptionLeavesHandleRequest ==
    Handled => response.unhandled = None /\ response.status \in 100..599

\* A request for a platform that has no adapter, ended by the ValueError of
\* SourceProcessor.__init__.
C21_Witness ==
    /\ Handled
    /\ request.source = "telegram"
    /\ response.unhandled = "ValueError"

\* A verification GET handled by WecomAdapter.verify.
WecomGet ==
    /\ Handled /\ request.method = "GET" /\ Called("verify")
    /\ Lower(request.source) = "wecom"

\* C24 as stated: WecomAdapter.verify answers a GET the crypto check
\* accepts with the decrypted echo, and a GET it rejects with an
\* unauthorized status and without the echo.
C24_WecomRejectionIsUnauthorized ==
    WecomGet =>
        IF request.query.msg_signature = "valid"
        THEN response.status = 200 /\ response.body.text = "decrypted echo"
        ELSE response.status \in {401, 403}
             /\ response.body.text # "decrypted echo"

\* A GET whose signature the crypto check rejects, answered 500.
C24_Witness ==
    /\ WecomGet
    /\ request.query.msg_signature # "valid"
    /\ response.status = 500
    /\ response.body.text = "Verification error"

\* The operations of the protocol among those the request invoked.
ProtocolOps == {"verify", "extract_params", "process", "format_response", "delay"}
ProtocolCalls == SelectSeq(calls, LAMBDA op : op \in ProtocolOps \ {"delay"})
PostProtocol == <<"extract_params", "process", "format_response">>

\* C30: a GET invokes verify and none of extract_params, process,
\* format_response or an enqueue; a POST invokes extract_params, process
\* and format_response at most once each and in that order, all three
\* unless an exception ended the request.
C30_RouterSequencesByMethod ==
    Handled =>
        /\ request.method = "GET" =>
              /\ \A i \in DOMAIN calls : calls[i] \in ProtocolOps => calls[i] = "verify"
              /\ Len(ProtocolCalls) <= 1
        /\ request.method = "POST" =>
              /\ \E k \in 0..3 : ProtocolCalls = SubSeq(PostProtocol, 1, k)
              /\ response.unhandled = None => ProtocolCalls = PostProtocol
              /\ \A i \in DOMAIN calls :
                    calls[i] = "delay" =>
                        /\ i > 1 /\ calls[i - 1] = "process"
                        /\ \A j \in DOMAIN calls : calls[j] = "delay" => j = i

\* A text POST that went through the three operations and one enqueue.
C30_Witness ==
    /\ Handled /\ request.method = "POST"
    /\ ProtocolCalls = PostProtocol
    /\ Called("delay")
    /\ response.status = 200

(***************************************************************************)
(* Claims about what a deferred job delivers, to whom and when             *)
(* (SpecSystem, SpecSystemFair).                                           *)
(***************************************************************************)
\* C25 as stated: a job whose backend call succeeded makes one
\* send_message call, on the job's platform, to the job's user, with the
\* generated text as message and the provider/model label as model.
C25_ReplyOnceToSenderWithLabel ==
    \A r \in Executed :
        runs[r].outcome = "ok" =>
            /\ Len(runs[r].sends) = 1
            /\ runs[r].sends[1].source = runs[r].job.source
            /\ runs[r].sends[1].user_id = runs[r].job.user_id
            /\ runs[r].sends[1].message = runs[r].reply
            /\ runs[r].sends[1].label
                 = <<ProviderLabel[TaskProvider(runs[r].job.task)], runs[r].job.model>>

\* A reply of DeepseekProvider's task: sent without a label, the label
\* being part of the message.
C25_Witness ==
    \E r \in Returned :
        /\ Delivered(r)
        /\ TaskProvider(runs[r].job.task) = "Deepseek"
        /\ runs[r].sends[1].label = <<"Unknown">>
        /\ runs[r].sends[1].message # runs[r].reply
        /\ runs[r].sends[1].user_id = runs[r].job.user_id

\* Every job taken from the queue has been executed to its end.
AllJobsDone ==
    /\ queue = <<>>
    /\ \A r \in Runs : runs[r].status = "returned"

\* C26 as stated: no job is dropped before it has run, and with workers
\* that keep going every enqueued job reaches the end of its execution.
C26_EveryJobRunsToTheEnd ==
    /\ [](\A r \in Runs : runs[r].status # "unregistered")
    /\ <>[]AllJobsDone

\* A job of TencentProvider taken from the queue by a worker that does not
\* know its task: it is discarded without a backend call or a send.
C26_Witness ==
    \E r \in Runs :
        /\ runs[r].status = "unregistered"
        /\ runs[r].job.task = TaskName["Tencent"]
        /\ runs[r].backend_calls = 0
        /\ runs[r].sends = <<>>
        /\ queue = <<>>

SendReturned(r) ==
    /\ Len(runs[r].sends) = 1
    /\ runs[r].sends[1].returned \in {"True", "False"}

\* C29 as stated: a send_message call that returned made text pushes of
\* chunks and no other push, returned True exactly when every chunk was
\* pushed, and then made as many pushes as there are chunks.
C29_OnePushPerChunkOnly ==
    \A r \in Executed :
        SendReturned(r) =>
            /\ \A i \in DOMAIN runs[r].pushes : runs[r].pushes[i].kind = "text"
            /\ runs[r].sends[1].returned = "True"
                  <=> /\ Cardinality(TextPushesOf(r)) = Len(SentChunks(r))
                      /\ \A i \in TextPushesOf(r) : runs[r].pushes[i].ok
            /\ runs[r].sends[1].returned = "True" =>
                  Len(runs[r].pushes) = Len(SentChunks(r))

\* A send_message call of WechatAdapter that returned True: after the
\* three chunks an image and an article were pushed.
C29_Witness ==
    \E r \in Returned :
        /\ Delivered(r)
        /\ runs[r].job.source = "wechat"
        /\ Len(SentChunks(r)) = 3
        /\ Len(runs[r].pushes) = 5
        /\ runs[r].pushes[4].kind = "image"
        /\ runs[r].pushes[5].kind = "articles"

(***************************************************************************)
(* Claims about one execution of a task (SpecTask).                        *)
(***************************************************************************)
Executing == t_pc = "done"

\* C22: no execution of a task lets an exception out: whatever fails in
\* it (the backend call, the construction of the adapter in the try block
\* or in the except clause, a send), the task returns, and an error of the
\* notification is swallowed.
C22_TaskNeverPropagates ==
    Executing =>
        /\ ~t_result.propagated
        /\ (t_result.caught # None /\ ~t_env.build_except
            /\ t_job.source \in {"wechat", "wecom"}) => t_result.swallowed

\* The backend call failed and then the notification itself: nothing was
\* sent and the task returned.
C22_Witness ==
    /\ Executing
    /\ t_env.out.raised /\ ~t_env.build_except
    /\ t_job.source = "wecom"
    /\ t_result.swallowed
    /\ t_result.sends = <<>>

\* The name of the provider in the keys of the WeCom credentials.
BindingProvider(cls) == Ord[NoticeName[cls]]

\* C23 as stated: a job on wecom with provider P and model M sends with the
\* credentials configured for (P, M) when there are such, and with the
\* default ones only when there are none.
C23_WecomSendUsesConfiguredBinding ==
    (Executing /\ t_job.source = "wecom") =>
        \A i \in DOMAIN t_result.sends :
            t_result.sends[i].binding
                = WecomBinding(BindingProvider(TaskProvider(t_job.task)),
                               Ord[t_job.model], t_env.cfg)

\* A reply of GroqProvider's task for the model whose credentials are
\* configured, sent with the default ones.
C23_Witness ==
    /\ Executing /\ t_job.source = "wecom"
    /\ t_job.task = TaskName["Groq"]
    /\ t_job.model = "deepseek-r1-distill-llama-70b"
    /\ Ord["GROQ_DEEPSEEK_R1_DISTILL_LLAMA_70B"] \in t_env.cfg.secrets
    /\ Len(t_result.sends) = 1
    /\ t_result.sends[1].kind = "reply"
    /\ t_result.sends[1].binding.app_secret = Ord["DEFAULT"]

\* The backend answered, the adapter was built and send_message returned
\* False.
ReplySendFailed ==
    /\ Executing
    /\ ~t_env.out.raised /\ t_env.build_try /\ ~t_env.send_ok
    /\ t_job.source \in {"wechat", "wecom"}

\* C28: when the send_message call of a generated reply returns False the
\* task does nothing more: that call is its only one (no notice, no second
\* attempt), the backend was called once, and the task returns.
C28_FailedSendIsFinal ==
    ReplySendFailed =>
        /\ Len(t_result.sends) = 1
        /\ t_result.sends[1].kind = "reply"
        /\ t_result.sends[1].returned = "False"
        /\ t_result.backend_calls = 1
        /\ t_result.caught = None
        /\ ~t_result.propagated

\* A reply of TencentProvider's task on wecom whose send returned False.
C28_Witness ==
    /\ ReplySendFailed
    /\ t_job.task = TaskName["Tencent"]
    /\ t_job.source = "wecom"
    /\ t_result.sends[1].returned = "False"
    /\ Len(t_result.sends) = 1

(***************************************************************************)
(* Claims about the model name of a job (SpecProvider).                    *)
(***************************************************************************)
ProviderJobs == {p_out.jobs[i] : i \in 1..Len(p_out.jobs)}
DefaultSetting == p_in.settings[DefaultModelAttr[p_in.cls]]

\* C31, amended: the model name of an enqueued job is the model path segment
\* when one is supplied and otherwise the value of the provider's default
\* model setting; it is absent only when no segment is supplied and the
\* environment does not set that setting.
C31_JobModel ==
    p_pc = "done" =>
        \A job \in ProviderJobs :
            /\ job.model = IF p_in.model # None THEN p_in.model ELSE DefaultSetting
            /\ job.model = None => (p_in.model = None /\ DefaultSetting = None)

\* C31 as stated: the job's model name is never absent.
C31_JobModelNeverAbsent ==
    p_pc = "done" => \A job \in ProviderJobs : job.model # None

\* A job enqueued for a request without a model segment carries the default
\* the environment sets.
C31_Witness ==
    /\ p_pc = "done"
    /\ p_in.model = None
    /\ \E job \in ProviderJobs : job.model = DefaultSetting /\ job.model # None

(***************************************************************************)
(* Claims about the greediness of split_content (SpecSplit).               *)
(***************************************************************************)
\* C32: split_content is the greedy chunking: for every chunk except the
\* last, the chunk's UTF-8 size plus the size of the first codepoint of the
\* following chunk exceeds the limit.
C32_GreedyChunks ==
    sc_pc = "done" =>
        \A i \in 1..(Len(chunks) - 1) :
            /\ chunks[i + 1] # <<>>
            /\ Utf8Size(chunks[i]) + Utf8Len(chunks[i + 1][1]) > max_length

\* A text split in more than two chunks, the first of several codepoints
\* and filled short of the limit.
C32_Witness ==
    /\ sc_pc = "done"
    /\ Len(chunks) > 2
    /\ Len(chunks[1]) > 1
    /\ Utf8Size(chunks[1]) < max_length

(***************************************************************************)
(* Claims about the addressing of the synchronous reply (Spec).            *)
(***************************************************************************)
ReplyEnvelope ==
    /\ Handled /\ Called("format_response")
    /\ response.body.kind \in {"xml", "encrypted"}

\* C33: for both platform adapters the synchronous reply envelope swaps
\* sender and recipient: its ToUserName is the inbound message's sender and
\* its FromUserName is the inbound message's recipient.
C33_ReplySwapsSenderAndRecipient ==
    ReplyEnvelope =>
        /\ response.body.xml.ToUserName = request.body.fields.FromUserName
        /\ response.body.xml.FromUserName = request.body.fields.ToUserName
        /\ response.body.xml.ToUserName = params.from_user
        /\ response.body.xml.FromUserName = params.to_user

\* A WeChat reply to a message u2 sent to the account gh_robot.
C33_Witness ==
    /\ ReplyEnvelope
    /\ response.body.kind = "xml"
    /\ request.body.fields.FromUserName = "u2"
    /\ response.body.xml.ToUserName = "u2"
    /\ response.body.xml.FromUserName = "gh_robot"

(***************************************************************************)
(* Claims about the delivery of an empty reply (SpecSystem).               *)
(***************************************************************************)
NoPushFailed(r) == \A i \in DOMAIN runs[r].pushes : runs[r].pushes[i].ok

\* C34 as stated: a job whose backend call succeeded and none of whose
\* pushes failed has, at its end, pushed at least one text message to the
\* user who sent the message, whatever the backend replied.
C34_SuccessfulJobPushesText ==
    \A r \in Returned :
        (runs[r].outcome = "ok" /\ NoPushFailed(r)) =>
            /\ Len(runs[r].sends) = 1
            /\ runs[r].sends[1].user_id = runs[r].job.user_id
            /\ TextPushesOf(r) # {}

\* The backend of a WeCom job returned the empty text: send_message split
\* it in no chunk, pushed nothing and returned True.
C34_Witness ==
    \E r \in Returned :
        /\ Delivered(r)
        /\ runs[r].job.source = "wecom"
        /\ runs[r].reply = <<>>
        /\ runs[r].sends[1].message = <<>>
        /\ runs[r].pushes = <<>>

(***************************************************************************)
(* Claims about the source of a job (SpecSystem).                          *)
(***************************************************************************)
JobsInFlight ==
    {queue[i] : i \in DOMAIN queue} \cup {runs[r].job : r \in Runs}

\* The task's "Unknown source" branch: the execution returned without a
\* call of send_message.
UnknownSourceBranch(r) == r \in Returned /\ runs[r].sends = <<>>

\* C35: every job enqueued through the HTTP path carries the lower-cased
\* source path segment, which is a registered platform, and no execution
\* of such a job takes the task's "Unknown source" branch.
C35_JobSourceRegistered ==
    /\ [](/\ \A job \in JobsInFlight : job.source \in RegisteredPlatforms
          /\ \A r \in Runs : ~UnknownSourceBranch(r))
    /\ [][Len(queue') > Len(queue) =>
            /\ queue'[Len(queue')].source = Lower(request'.source)
            /\ queue'[Len(queue')].source = params'.source]_vars

\* The job of a request to /WeCom/groq was executed as a job of source
\* wecom and its reply sent.
C35_Witness ==
    /\ nreq = 1
    /\ request.source = "WeCom"
    /\ \E r \in Returned :
          /\ Delivered(r)
          /\ runs[r].job.source = "wecom"
          /\ TextPushesOf(r) # {}

(***************************************************************************)
(* Claims about the credentials of a WecomAdapter (SpecTask).              *)
(***************************************************************************)
\* Both credentials are the default ones, or neither is.
SameBinding(b) == (b.app_secret = Ord["DEFAULT"]) <=> (b.agent_id = Ord["DEFAULT"])

\* C36 as stated: under every configuration the app secret and the agent
\* id of a WecomAdapter belong to the same binding, the one configured for
\* its (provider, model) or the platform-wide default, for every message
\* the instance sends.
C36_CredentialsOfOneBinding ==
    (Executing /\ t_job.source = "wecom") =>
        \A i \in DOMAIN t_result.sends :
            /\ t_result.sends[i].binding = TaskBinding(t_job, t_env.cfg)
            /\ SameBinding(t_result.sends[i].binding)

\* The environment sets the app secret of Tencent/DS-R1-671B and not its
\* agent id: the adapter of TencentProvider's task sends with that secret
\* and the default agent id.
C36_Witness ==
    /\ Executing /\ t_job.source = "wecom"
    /\ t_job.task = TaskName["Tencent"]
    /\ Ord["TENCENT_DS_R1_671B"] \in t_env.cfg.secrets
    /\ Ord["TENCENT_DS_R1_671B"] \notin t_env.cfg.agents
    /\ Len(t_result.sends) = 1
    /\ t_result.sends[1].binding.app_secret = Ord["TENCENT_DS_R1_671B"]
    /\ t_result.sends[1].binding.agent_id = Ord["DEFAULT"]

(***************************************************************************)
(* Claims about MessageFormatter.split_message (SpecSplit).                *)
(***************************************************************************)
BothSplit == sc_pc = "done" /\ sm_pc = "done"

\* C37 as stated: split_message(message, L) returns the same list of chunks
\* as split_content(message, L) for every message and limit, the empty
\* message and the messages of at most L characters and more than L bytes
\* included.
C37_SplitMessageEqualsSplitContent ==
    BothSplit => parts = chunks

\* A message of at most max_length characters and more than max_length
\* bytes: split_message returns it whole, split_content splits it.
C37_Witness ==
    /\ BothSplit
    /\ Len(content) > 1
    /\ Len(content) <= max_length
    /\ Utf8Size(content) > max_length
    /\ parts = <<content>>
    /\ Len(chunks) > 1
    /\ \A i \in DOMAIN chunks : Utf8Size(chunks[i]) <= max_length

(***************************************************************************)
(* Claims about the Tencent task's stream accumulation (SpecStream).       *)
(***************************************************************************)
Positions(text, piece) == {i \in DOMAIN text : text[i] = piece}

\* C38 as stated: for every sequence of stream deltas the delivered text
\* holds the opening marker "<think>" once and the closing marker
\* "</think>" once, every reasoning delta before the closing marker and
\* every answer delta after it, and is_answering, once set, stays set.
C38_ThinkMarkersOnceAndInOrder ==
    /\ [](st_pc = "done" =>
            /\ Cardinality(Positions(full_content, "<think>")) = 1
            /\ Cardinality(Positions(full_content, "</think>")) = 1
            /\ \A j \in Positions(full_content, "</think>") :
                  /\ \A i \in Positions(full_content, "r") : i < j
                  /\ \A i \in Positions(full_content, "a") : j < i)
    /\ [][(st_pc = "loop" /\ acc.is_answering) => acc'.is_answering]_vars

\* A stream of reasoning deltas only: the text ends inside the reasoning,
\* without the closing marker.
C38_Witness ==
    /\ st_pc = "done"
    /\ Len(stream) > 1
    /\ \A i \in DOMAIN stream : stream[i].reasoning_content = "r"
    /\ Positions(full_content, "r") # {}
    /\ Positions(full_content, "<think>") # {}
    /\ Positions(full_content, "</think>") = {}
    /\ ~acc.is_answering

====
